---- MODULE Spec2Model ----
(***************************************************************************)
(* A model of the two MCP client transports of mcp-go.                     *)
(*                                                                         *)
(* The subprocess (stdio) transport of transport/stdio.go: the Calls of    *)
(* concurrent threads correlated by id through the pending-request map,    *)
(* the message-scanning loop readMessages with the handling of responses,  *)
(* server requests and notifications, and Close.                           *)
(*                                                                         *)
(* The session-aware HTTP client and the HTTP transport of transport/http: *)
(* the session-id slot, the exchanges made by Do, and Close.               *)
(*                                                                         *)
(* JSON numbers are float64 in the code; the model keeps them doubled      *)
(* (x2), so that 5 stands for 2.5 and Trunc(5) = 2 is int64(2.5).          *)
(*                                                                         *)
(* Specifications:                                                         *)
(*   Spec        two threads calling, responses arriving, Close            *)
(*   SpecServer  one thread calling, server requests, handlers, Close      *)
(*   SpecHTTP    two threads calling through one HTTP transport, Close     *)
(*   SpecClose   Close on a subprocess and on an HTTP transport            *)
(***************************************************************************)
EXTENDS Integers, Sequences, FiniteSets, TLC

\* ------------------------------------------------------------------ bounds
\* Lines the server may write to the transport's stdout.
MaxInbound == 2
\* Invocations of Close on one transport.
MaxCloses == 2
\* Exchanges made through one HTTP transport.
MaxExchanges == 3
\* Length of a response body, in tokens.
MaxBody == 4

\* Operations called on one Client.
MaxClientOps == 3

\* Threads of the application that issue a Call on the subprocess transport
\* (one Call each), and threads that call through the HTTP transport.
Callers == {"a", "b"}
HThreads == {"t1", "t2"}

\* ------------------------------------------------------- program constants
MethodNotFound == -32601
InvalidRequest == -32600
HandlerError == -32000
TransportClosedCode == -32000

VARIABLES
    mode,             \* how the transport was constructed: spawn, streams, os
    closed,           \* StdioTransport.closed
    mu,               \* holder of the write lock StdioTransport.mu, or "free"
    nextID,           \* StdioTransport.nextID
    pendingRequests,  \* keys of StdioTransport.pendingRequests
    chanBuf,          \* id -> contents of that call's one-slot response channel
    chanClosed,       \* id -> that call has closed its response channel
    pc,               \* caller -> position of its Call
    cid,              \* caller -> id of its Call (0: none)
    ctxDone,          \* caller -> ctx.Done() is ready in its waiting Call's select
    timerFired,       \* caller -> the 30 s timer is ready in its waiting Call's select
    outcome,          \* caller -> what its Call returned
    got,              \* caller -> the response its Call received
    populated,        \* caller -> what was decoded into the caller's result
    rpc,              \* position of readMessages
    rhold,            \* what readMessages holds between two of its steps
    inbound,          \* lines read from stdout so far
    outbound,         \* lines written to stdin, in order
    stdinOK,          \* writes to stdin succeed (the child still reads)
    requestHandler,   \* StdioTransport.requestHandler
    notificationHandler,  \* StdioTransport.notificationHandler
    released,         \* how often each resource was released (under: how often
                      \* the streams under the three handles were closed)
    closeRets,        \* return values of the Close calls, in order
    closePending,     \* the ids Close found in the pending map
    panicked,         \* the process has panicked
    ctor,             \* NewStdioTransportWithConfig: its config and progress
    sessionID,        \* StdioTransport.sessionID
    lastSessionID,    \* what the last StdioTransport.GetSessionID returned
    hSession,         \* SessionAwareHTTPClient.sessionID, a two-word string
    hpc,              \* thread -> position of its HTTP Call
    hHdr,             \* thread -> Mcp-Session-Id set on its request (empty: none)
    hResp,            \* thread -> Mcp-Session-Id of the response it got (0: none)
    hOutcome,         \* thread -> what its last HTTP Call returned
    hCloseRets,       \* return values of HTTPTransport.Close, in order
    hExch,            \* exchanges made with the HTTP server
    hLastGet,         \* what the last GetSessionID returned
    hRespBody,        \* a response in Do: its Content-Type, raw and presented body
    client,           \* the Client: its transport, serverInfo, capabilities
    clientLast,       \* the last operation on the Client and what it returned
    locks             \* who holds mu and requestsMu, and each thread's lock
                      \* operations still to come

svars == <<mode, closed, mu, nextID, pendingRequests, chanBuf, chanClosed, pc,
           cid, ctxDone, timerFired, outcome, got, populated, rpc, rhold,
           inbound, outbound, stdinOK, requestHandler, notificationHandler,
           released, closeRets, closePending, panicked, ctor, sessionID,
           lastSessionID>>

hvars == <<hSession, hpc, hHdr, hResp, hOutcome, hCloseRets,
           hExch, hLastGet, hRespBody>>

cvars == <<client, clientLast>>

lvars == <<locks>>

vars == <<svars, hvars, cvars, lvars>>

\* ---------------------------------------------------------------- values
\* Call adds 1 to nextID, which starts at 1: the ids are 2, 3, ...
Ids == 2..(1 + Cardinality(Callers))

\* float64 -> int64 / int conversion of a doubled number: truncation to zero.
Trunc(x2) == IF x2 >= 0 THEN x2 \div 2 ELSE -((-x2) \div 2)

\* Members of an inbound line.  id: absent, a string, or a number (doubled).
\* error: absent, not a JSON object, or an object whose members may be
\* missing or fractional.  result: absent, JSON null, an object that decodes
\* into the caller's structure ("r1"), or a value of a shape that does not.
NoId == [kind |-> "absent", x2 |-> 0]
StrId == [kind |-> "str", x2 |-> 0]
NumId(k) == [kind |-> "num", x2 |-> k]
NoErr == [kind |-> "absent", hasCode |-> FALSE, code2 |-> 0, hasMsg |-> FALSE,
          msg |-> "", data |-> "nil"]
NonObjErr == [NoErr EXCEPT !.kind = "nonobj"]
ObjErr == [kind |-> "obj", hasCode |-> TRUE, code2 |-> 2 * 7, hasMsg |-> TRUE,
           msg |-> "boom", data |-> "d"]
FracErr == [ObjErr EXCEPT !.code2 = 15]
BareErr == [NoErr EXCEPT !.kind = "obj"]

Msg(i, r, e, m) == [json |-> TRUE, id |-> i, result |-> r, error |-> e, method |-> m]
NoLine == [Msg(NoId, "absent", NoErr, "absent") EXCEPT !.json = FALSE]

\* Responses the server may write: to every id a Call can carry, with a
\* result or an error object; one with the fractional id 2.5, one with the
\* never-issued id 1, one with a string id; and for id 2 an error that is
\* not an object and a response with both members.
Responses ==
    {Msg(NumId(2 * i), p[1], p[2], "absent") :
        i \in Ids, p \in {<<"r1", NoErr>>, <<"absent", ObjErr>>}}
    \cup {Msg(NumId(5), "r1", NoErr, "absent"),
          Msg(NumId(2), "r1", NoErr, "absent"),
          Msg(StrId, "r1", NoErr, "absent"),
          Msg(NumId(4), "absent", NonObjErr, "absent"),
          Msg(NumId(4), "r1", ObjErr, "absent")}

\* Responses with payloads of every shape, for the specification with one
\* caller (whose Call carries id 2).
SoloResponses ==
    {Msg(NumId(4), p[1], p[2], "absent") :
        p \in {<<"r1", NoErr>>, <<"null", NoErr>>, <<"bad", NoErr>>,
               <<"absent", ObjErr>>, <<"absent", FracErr>>,
               <<"absent", BareErr>>, <<"absent", NonObjErr>>,
               <<"r1", NonObjErr>>, <<"r1", ObjErr>>}}

\* Server requests (an id, neither result nor error) with a method, without
\* one, and with a method that is not a string; a notification; a line that
\* is not JSON.
ServerRequests ==
    {Msg(NumId(14), "absent", NoErr, "m1"), Msg(StrId, "absent", NoErr, "m1"),
     Msg(NumId(14), "absent", NoErr, "absent"),
     Msg(NumId(14), "absent", NoErr, "nonstr")}
Notifications == {Msg(NoId, "absent", NoErr, "m1")}

\* Lines without an id: with a method, without one, with a method that is
\* not a string, and with a result member.
NotifyLines ==
    {Msg(NoId, "absent", NoErr, "m1"), Msg(NoId, "absent", NoErr, "absent"),
     Msg(NoId, "absent", NoErr, "nonstr"), Msg(NoId, "r1", NoErr, "m1")}

\* A Go string is a data word and a length word.  The session ids a server
\* hands out are numbered 1, 2; 0 is the empty string.  A string whose words
\* come from two different stores is neither.
Str(v) == [ptr |-> v, len |-> v]
EmptyStr == Str(0)
\* What reading a string yields: one of length 0 is empty whatever its data
\* word.
ReadStr(s) == IF s.len = 0 THEN EmptyStr ELSE s
SessionIds == {1, 2}

\* jsonrpc.RPCResponse as handleResponse and Close build it; src is the
\* inbound line it was built from (NoLine: it was built from none).
NoError == [kind |-> "nil", Code |-> 0, Message |-> "", Data |-> "nil"]
NoResponse == [src |-> NoLine, Result |-> "nil", Error |-> NoError]

\* An outbound envelope: a request of Call, or the reply to a server request
\* with its error code and message or its result.  What readMessages holds:
\* the line in hand, the request handler it read, how often it has invoked
\* a handler for the line and what the handler returned (a result, "ok", or
\* an error, "err"), and the response or reply it is about to send.
NoReply == [type |-> "none", id |-> NoId, code |-> 0, msg |-> "", result |-> "nil"]
NoHold == [kind |-> "none", line |-> NoLine, handler |-> "nil", ncalls |-> 0,
           hret |-> "none", target |-> 0, resp |-> NoResponse, reply |-> NoReply]

\* A constructor that would give the transport a session id: with it in
\* place of ZeroSessionID the formula of C21 fails.
GivenSessionID == "s1"

\* The constructors' struct literals name no sessionID: it has the zero
\* value of a string.
ZeroSessionID == ""

\* ------------------------------------------------------------ construction
\* NewStdioTransportWithConfig at work: the configuration it was given, the
\* statement it is at, the Dir and Env it has set on the command, the pipe
\* handles it has opened and those it has closed, what it returned, and
\* the background loops it has started.  NoCtor: the constructor is not
\* at work.
NoConfig == [Command |-> "", WorkingDir |-> "", Env |-> <<>>]
NoCtor == [config |-> NoConfig, at |-> "none", cmdDir |-> "", cmdEnv |-> <<>>,
           opened |-> {}, closedHandles |-> {}, result |-> "none", loops |-> 0]

\* NewStdioTransportWithConfig / NewStdioTransportFromStreams /
\* NewStdioTransportFromOS: the transport right after construction, with
\* readMessages started and about to scan.
InitStdio ==
    /\ mode \in {"spawn", "streams", "os"}
    /\ closed = FALSE
    /\ mu = "free"
    /\ nextID = 1
    /\ pendingRequests = {}
    /\ chanBuf = [i \in Ids |-> <<>>]
    /\ chanClosed = [i \in Ids |-> FALSE]
    /\ pc = [c \in Callers |-> "idle"]
    /\ cid = [c \in Callers |-> 0]
    /\ ctxDone = [c \in Callers |-> FALSE]
    /\ timerFired = [c \in Callers |-> FALSE]
    /\ outcome = [c \in Callers |-> "none"]
    /\ got = [c \in Callers |-> NoResponse]
    /\ populated = [c \in Callers |-> "nil"]
    /\ rpc = "scan"
    /\ rhold = NoHold
    /\ inbound = 0
    /\ outbound = <<>>
    /\ stdinOK = TRUE
    /\ requestHandler = "nil"
    /\ notificationHandler = "nil"
    /\ released = [stop |-> 0, stdin |-> 0, stdout |-> 0, stderr |-> 0,
                   wait |-> 0, kill |-> 0, under |-> 0]
    /\ closeRets = <<>>
    /\ closePending = {}
    /\ panicked = FALSE
    /\ sessionID = ZeroSessionID
    /\ lastSessionID = "none"
    /\ ctor = NoCtor

\* NewHTTPTransport / NewSessionAwareHTTPClient: no session id yet.
InitHTTP ==
    /\ hSession = EmptyStr
    /\ hpc = [t \in HThreads |-> "idle"]
    /\ hHdr = [t \in HThreads |-> EmptyStr]
    /\ hResp = [t \in HThreads |-> 0]
    /\ hOutcome = [t \in HThreads |-> "none"]
    /\ hCloseRets = <<>>
    /\ hExch = 0
    /\ hLastGet = EmptyStr

\* No response body is in hand.
NoBody == [ctype |-> "", raw |-> <<>>, body |-> <<>>, at |-> "none"]

InitBody == hRespBody = NoBody

\* No Client has been constructed and no operation has been called on one.
\* Client.capabilities: the nil pointer, or the capabilities pointed to.
NilCapabilities == [cached |-> FALSE, members |-> {}]

NoAnswer == [err |-> "none"]

NoClient == [transport |-> "none", serverInfo |-> "nil",
             capabilities |-> NilCapabilities]

NoOp == [n |-> 0, op |-> "none", calls |-> <<>>, answer |-> NoAnswer,
         ret |-> "nil", err |-> "nil"]

InitClient == client = NoClient /\ clientLast = NoOp

\* The threads that take the transport's locks: two callers, the scanning
\* loop, one closing the transport and one asking for the session id.
LockThreads == {"a", "b", "reader", "closer", "getter"}

\* NewStdioTransportFromStreams, lines 109-119: both mutexes are zero values,
\* unlocked; no thread is inside a function of the transport.
InitLocks ==
    locks = [prog |-> [t \in LockThreads |-> <<>>],
             writer |-> "none", readers |-> {}, requestsMu |-> "none"]

Init == InitStdio /\ InitHTTP /\ InitBody /\ InitClient /\ InitLocks

\* ------------------------------------------------------------------- Call
\* A deferred function that closes the channel but leaves the entry in the
\* map: with it in place of CallCleanup the formula of C7 fails.
CallCleanupKeepsEntry(c) ==
    /\ pendingRequests' = pendingRequests
    /\ chanClosed' = [chanClosed EXCEPT ![cid[c]] = TRUE]
    /\ chanBuf' = [chanBuf EXCEPT ![cid[c]] = <<>>]

\* The deferred function of Call, lines 448-453: the pending entry is
\* deleted and the channel closed (what its slot held is lost with it).
CallCleanup(c) ==
    /\ pendingRequests' = pendingRequests \ {cid[c]}
    /\ chanClosed' = [chanClosed EXCEPT ![cid[c]] = TRUE]
    /\ chanBuf' = [chanBuf EXCEPT ![cid[c]] = <<>>]

\* An id generator that hands out the same id again: with it in place of
\* NextRequestID the formula of C20 fails.
SameRequestID(n) == 2

\* Call, line 429: atomic.AddInt64(&t.nextID, 1) stores and returns n + 1.
NextRequestID(n) == n + 1

\* Call, lines 421-429: the closed check under the read lock, then the id.
\* The callers being alike, "a" names the one that begins first.
CallBegin(c) ==
    /\ ~panicked
    /\ pc[c] = "idle"
    /\ c = "b" => pc["a"] # "idle"
    /\ mu = "free"
    /\ IF closed
         THEN /\ pc' = [pc EXCEPT ![c] = "done"]
              /\ outcome' = [outcome EXCEPT ![c] = "closed"]
              /\ UNCHANGED <<nextID, cid>>
         ELSE /\ nextID' = NextRequestID(nextID)
              /\ cid' = [cid EXCEPT ![c] = NextRequestID(nextID)]
              /\ pc' = [pc EXCEPT ![c] = "register"]
              /\ UNCHANGED outcome
    /\ UNCHANGED <<mode, closed, mu, pendingRequests, chanBuf, chanClosed,
                   ctxDone, timerFired, got, populated, rpc, rhold, inbound,
                   outbound, stdinOK, requestHandler, notificationHandler,
                   released, closeRets, closePending, panicked, ctor,
                   sessionID, lastSessionID, hSession, hpc, hHdr, hResp,
                   hOutcome, hCloseRets, hExch, hLastGet, hRespBody, client,
                   clientLast, locks>>

\* A Call that makes its channel but does not enter it in the map: with it
\* in place of CallRegister the formula of C23 fails.
CallRegisterNothing(c) ==
    /\ ~panicked
    /\ pc[c] = "register"
    /\ pc' = [pc EXCEPT ![c] = "sendLock"]
    /\ UNCHANGED <<mode, closed, mu, nextID, pendingRequests, chanBuf,
                   chanClosed, cid, ctxDone, timerFired, outcome, got,
                   populated, rpc, rhold, inbound, outbound, stdinOK,
                   requestHandler, notificationHandler, released, closeRets,
                   closePending, panicked, ctor, sessionID, lastSessionID,
                   hSession, hpc, hHdr, hResp, hOutcome, hCloseRets, hExch,
                   hLastGet, hRespBody, client, clientLast, locks>>

\* Call, lines 440-445: the response channel is made and registered.
CallRegister(c) ==
    /\ ~panicked
    /\ pc[c] = "register"
    /\ pendingRequests' = pendingRequests \cup {cid[c]}
    /\ pc' = [pc EXCEPT ![c] = "sendLock"]
    /\ UNCHANGED <<mode, closed, mu, nextID, chanBuf, chanClosed, cid,
                   ctxDone, timerFired, outcome, got, populated, rpc, rhold,
                   inbound, outbound, stdinOK, requestHandler,
                   notificationHandler, released, closeRets, closePending,
                   panicked, ctor, sessionID, lastSessionID, hSession, hpc,
                   hHdr, hResp, hOutcome, hCloseRets, hExch, hLastGet,
                   hRespBody, client, clientLast, locks>>

\* A lock that is granted whoever holds it: with it in place of LockFree
\* the formula of C26 fails.
LockAlways(m) == TRUE

\* t.mu.Lock() in sendMessage (line 388) and Close (504) is granted when no
\* one holds the lock.
LockFree(m) == m = "free"

\* A sendMessage that does not look at the flag: with it in place of
\* SendRefused the formula of C27 fails.
SendNeverRefused(flag) == FALSE

\* sendMessage, lines 391-393: under the write lock, a set closed flag makes
\* it return the closed error before the write.
SendRefused(flag) == flag

\* sendMessage called by Call, lines 388-393: the write lock and the closed
\* check; on a closed transport Call returns through its deferred cleanup.
CallSendLock(c) ==
    /\ ~panicked
    /\ pc[c] = "sendLock"
    /\ LockFree(mu)
    /\ IF SendRefused(closed)
         THEN /\ outcome' = [outcome EXCEPT ![c] = "sendfail_closed"]
              /\ pc' = [pc EXCEPT ![c] = "done"]
              /\ CallCleanup(c)
              /\ UNCHANGED mu
         ELSE /\ mu' = c
              /\ pc' = [pc EXCEPT ![c] = "write"]
              /\ UNCHANGED <<outcome, pendingRequests, chanClosed, chanBuf>>
    /\ UNCHANGED <<mode, closed, nextID, cid, ctxDone, timerFired, got,
                   populated, rpc, rhold, inbound, outbound, stdinOK,
                   requestHandler, notificationHandler, released, closeRets,
                   closePending, panicked, ctor, sessionID, lastSessionID,
                   hSession, hpc, hHdr, hResp, hOutcome, hCloseRets, hExch,
                   hLastGet, hRespBody, client, clientLast, locks>>

\* Call, lines 430-438: the request envelope.
RequestLine(i) ==
    [type |-> "request", id |-> NumId(2 * i), code |-> 0, msg |-> "", result |-> "nil"]

\* sendMessage called by Call, lines 395-396, and Call, lines 456-458: the
\* write of the request line, which ends when the child takes the bytes.
CallSendWrite(c) ==
    /\ ~panicked
    /\ pc[c] = "write"
    /\ mu = c
    /\ mu' = "free"
    /\ IF stdinOK
         THEN /\ outbound' = Append(outbound, RequestLine(cid[c]))
              /\ pc' = [pc EXCEPT ![c] = "wait"]
              /\ UNCHANGED <<outcome, pendingRequests, chanClosed, chanBuf>>
         ELSE /\ outcome' = [outcome EXCEPT ![c] = "sendfail_io"]
              /\ pc' = [pc EXCEPT ![c] = "done"]
              /\ CallCleanup(c)
              /\ UNCHANGED outbound
    /\ UNCHANGED <<mode, closed, nextID, cid, ctxDone, timerFired, got,
                   populated, rpc, rhold, inbound, stdinOK, requestHandler,
                   notificationHandler, released, closeRets, closePending,
                   panicked, ctor, sessionID, lastSessionID, hSession, hpc,
                   hHdr, hResp, hOutcome, hCloseRets, hExch, hLastGet,
                   hRespBody, client, clientLast, locks>>

\* The caller's context ends (cancelled, or its deadline passes) while its
\* Call waits in the select.
CtxEnd(c) ==
    /\ ~panicked
    /\ pc[c] = "wait"
    /\ ~ctxDone[c]
    /\ ctxDone' = [ctxDone EXCEPT ![c] = TRUE]
    /\ UNCHANGED <<mode, closed, mu, nextID, pendingRequests, chanBuf,
                   chanClosed, pc, cid, timerFired, outcome, got, populated,
                   rpc, rhold, inbound, outbound, stdinOK, requestHandler,
                   notificationHandler, released, closeRets, closePending,
                   panicked, ctor, sessionID, lastSessionID, hSession, hpc,
                   hHdr, hResp, hOutcome, hCloseRets, hExch, hLastGet,
                   hRespBody, client, clientLast, locks>>

\* time.After(30 * time.Second) of Call's select, line 483, fires.
TimerFire(c) ==
    /\ ~panicked
    /\ pc[c] = "wait"
    /\ ~timerFired[c]
    /\ timerFired' = [timerFired EXCEPT ![c] = TRUE]
    /\ UNCHANGED <<mode, closed, mu, nextID, pendingRequests, chanBuf,
                   chanClosed, pc, cid, ctxDone, outcome, got, populated,
                   rpc, rhold, inbound, outbound, stdinOK, requestHandler,
                   notificationHandler, released, closeRets, closePending,
                   panicked, ctor, sessionID, lastSessionID, hSession, hpc,
                   hHdr, hResp, hOutcome, hCloseRets, hExch, hLastGet,
                   hRespBody, client, clientLast, locks>>

\* A Call that reports an ended context as a timeout: with it in place of
\* CtxErr the formula of C8 fails.
CtxErrAsTimeout == "timeout"

\* Call, line 481: ctx.Err(), context.Canceled or DeadlineExceeded.
CtxErr == "ctx"

\* Call, line 484: the error "request timeout".
TimeoutErr == "timeout"

\* Call, lines 462-478: what Call returns for a received response.
ResponseOutcome(r) ==
    IF r.Error.kind # "nil" THEN "remote"
    ELSE IF r.Result = "bad" THEN "decodefail"
    ELSE "ok"

\* Call, lines 467-476: what is decoded into the caller's structure.
ResponsePopulates(r) ==
    IF r.Error.kind = "nil" /\ r.Result \notin {"nil", "bad"} THEN r.Result ELSE "nil"

\* Call returns from its select, lines 461-485, through the deferred
\* cleanup: the pending entry is deleted and the channel closed.
CallReturn(c) ==
    /\ pc' = [pc EXCEPT ![c] = "done"]
    /\ ctxDone' = [ctxDone EXCEPT ![c] = FALSE]
    /\ timerFired' = [timerFired EXCEPT ![c] = FALSE]
    /\ CallCleanup(c)

\* Call, lines 462-478: select takes the response channel's case.
CallReceive(c) ==
    /\ ~panicked
    /\ pc[c] = "wait"
    /\ chanBuf[cid[c]] # <<>>
    /\ got' = [got EXCEPT ![c] = Head(chanBuf[cid[c]])]
    /\ outcome' = [outcome EXCEPT ![c] = ResponseOutcome(Head(chanBuf[cid[c]]))]
    /\ populated' = [populated EXCEPT ![c] = ResponsePopulates(Head(chanBuf[cid[c]]))]
    /\ CallReturn(c)
    /\ UNCHANGED <<mode, closed, mu, nextID, cid, rpc, rhold, inbound,
                   outbound, stdinOK, requestHandler, notificationHandler,
                   released, closeRets, closePending, panicked, ctor,
                   sessionID, lastSessionID, hSession, hpc, hHdr, hResp,
                   hOutcome, hCloseRets, hExch, hLastGet, hRespBody, client,
                   clientLast, locks>>

\* Call, lines 480-481: select takes the case of the ended context.
CallCtxDone(c) ==
    /\ ~panicked
    /\ pc[c] = "wait"
    /\ ctxDone[c]
    /\ outcome' = [outcome EXCEPT ![c] = CtxErr]
    /\ CallReturn(c)
    /\ UNCHANGED <<mode, closed, mu, nextID, cid, got, populated, rpc, rhold,
                   inbound, outbound, stdinOK, requestHandler,
                   notificationHandler, released, closeRets, closePending,
                   panicked, ctor, sessionID, lastSessionID, hSession, hpc,
                   hHdr, hResp, hOutcome, hCloseRets, hExch, hLastGet,
                   hRespBody, client, clientLast, locks>>

\* Call, lines 483-484: select takes the case of the fallback timer.
CallTimeout(c) ==
    /\ ~panicked
    /\ pc[c] = "wait"
    /\ timerFired[c]
    /\ outcome' = [outcome EXCEPT ![c] = TimeoutErr]
    /\ CallReturn(c)
    /\ UNCHANGED <<mode, closed, mu, nextID, cid, got, populated, rpc, rhold,
                   inbound, outbound, stdinOK, requestHandler,
                   notificationHandler, released, closeRets, closePending,
                   panicked, ctor, sessionID, lastSessionID, hSession, hpc,
                   hHdr, hResp, hOutcome, hCloseRets, hExch, hLastGet,
                   hRespBody, client, clientLast, locks>>

\* ----------------------------------------------------------- readMessages
\* handleResponse, lines 286-310: the RPCResponse built from a response line.
\* A result of JSON null is a nil Result; an error member that is not a JSON
\* object leaves Error nil; a code is converted float64 -> int, a missing
\* code is 0 and a missing message "".
TranslateResponse(m) ==
    [src |-> m,
     Result |-> IF m.result \in {"absent", "null"} THEN "nil" ELSE m.result,
     Error |-> IF m.error.kind = "obj"
                 THEN [kind |-> "err",
                       Code |-> IF m.error.hasCode THEN Trunc(m.error.code2) ELSE 0,
                       Message |-> IF m.error.hasMsg THEN m.error.msg ELSE "",
                       Data |-> m.error.data]
                 ELSE NoError]

\* handleResponse, lines 271-276: the pending-map key of a response line
\* (0, which is never a key: the id is not a number and the line is dropped).
ResponseKey(m) == IF m.id.kind = "num" THEN Trunc(m.id.x2) ELSE 0

\* processMessage, lines 243-266: which handler a scanned line goes to.
Dispatch(m) ==
    IF ~m.json THEN "invalid"
    ELSE IF m.id.kind # "absent"
      THEN IF m.result # "absent" \/ m.error.kind # "absent" THEN "response"
           ELSE "request"
      ELSE "notification"

\* handleServerRequest, lines 330-336: the registered handler returns a
\* result (TRUE) or an error (FALSE); it runs only for a request with a method.
HandlerReturns(m, handler) ==
    IF m.method = "m1" /\ handler # "nil" THEN BOOLEAN ELSE {TRUE}

\* A handleServerRequest that answers every request with "invalid request":
\* with it in place of ReplyFor the formula of C10 fails.
ReplyForAsInvalid(m, handler, ok) ==
    [type |-> "error", id |-> m.id, code |-> InvalidRequest,
     msg |-> "Invalid request: missing method", result |-> "nil"]

\* A handleServerRequest that does not look at the method: with it in place
\* of ReplyFor the formula of C11 fails.
ReplyForAnyMethod(m, handler, ok) ==
    [type |-> "error", id |-> m.id, code |-> MethodNotFound,
     msg |-> "Method not found", result |-> "nil"]

\* A handleServerRequest that reports a handler's error as its result: with
\* it in place of ReplyFor the formula of C12 fails.
ReplyForAlwaysSuccess(m, handler, ok) ==
    [type |-> "success", id |-> m.id, code |-> 0, msg |-> "", result |-> "h"]

\* handleServerRequest, lines 321-340, with sendErrorResponse and
\* sendSuccessResponse, lines 357-379: the reply envelope for a server
\* request; ok tells whether the handler returned without error.  The
\* handler's result is "h" and its error's message "herr".
ReplyFor(m, handler, ok) ==
    IF m.method # "m1"
      THEN [type |-> "error", id |-> m.id, code |-> InvalidRequest,
            msg |-> "Invalid request: missing method", result |-> "nil"]
    ELSE IF handler # "nil"
      THEN IF ok THEN [type |-> "success", id |-> m.id, code |-> 0, msg |-> "",
                       result |-> "h"]
                 ELSE [type |-> "error", id |-> m.id, code |-> HandlerError,
                       msg |-> "herr", result |-> "nil"]
    ELSE [type |-> "error", id |-> m.id, code |-> MethodNotFound,
          msg |-> "Method not found", result |-> "nil"]

\* handleServerRequest, lines 322-331: how often the registered handler is
\* invoked for a server request.
HandlerCalls(m, handler) == IF m.method = "m1" /\ handler # "nil" THEN 1 ELSE 0

\* handleServerRequest, line 331: what the invoked handler returned.
HandlerReturned(m, handler, ok) ==
    IF HandlerCalls(m, handler) = 0 THEN "none" ELSE IF ok THEN "ok" ELSE "err"

\* A handleNotification that invokes the handler for every line: with it in
\* place of NotifyCalls the formula of C13 fails.
NotifyCallsAlways(m, handler) == 1

\* handleNotification, lines 343-353: how often the registered notification
\* handler is invoked for a line without an id.
NotifyCalls(m, handler) == IF m.method = "m1" /\ handler # "nil" THEN 1 ELSE 0

\* readMessages, lines 219-223: the select at the top of the loop, taken at
\* the end of the step before it: the loop ends if the stop signal is closed.
LoopTop == IF released.stop > 0 THEN "done" ELSE "scan"

\* A loop that marks the transport closed when the output ends: with it in
\* place of ReaderScanEnd the formula of C33 fails.
ReaderScanEndCloses ==
    /\ ~panicked
    /\ rpc = "scan"
    /\ rpc' = "done"
    /\ closed' = TRUE
    /\ UNCHANGED <<mode, mu, nextID, pendingRequests, chanBuf, chanClosed,
                   pc, cid, ctxDone, timerFired, outcome, got, populated,
                   rhold, inbound, outbound, stdinOK, requestHandler,
                   notificationHandler, released, closeRets, closePending,
                   panicked, ctor, sessionID, lastSessionID, hSession, hpc,
                   hHdr, hResp, hOutcome, hCloseRets, hExch, hLastGet,
                   hRespBody, client, clientLast, locks>>

\* readMessages, lines 224-229: Scan returns false (the child ended its
\* output, or Close closed the stream).
ReaderScanEnd ==
    /\ ~panicked
    /\ rpc = "scan"
    /\ rpc' = "done"
    /\ UNCHANGED <<mode, closed, mu, nextID, pendingRequests, chanBuf,
                   chanClosed, pc, cid, ctxDone, timerFired, outcome, got,
                   populated, rhold, inbound, outbound, stdinOK,
                   requestHandler, notificationHandler, released, closeRets,
                   closePending, panicked, ctor, sessionID, lastSessionID,
                   hSession, hpc, hHdr, hResp, hOutcome, hCloseRets, hExch,
                   hLastGet, hRespBody, client, clientLast, locks>>

\* readMessages, lines 224-229, after Close, lines 536-538: the stream the
\* loop scans has been closed under it and Scan returns false.  The stand-in
\* for the host's standard streams (lines 144-150) is never closed this way.
ReaderScanClosed ==
    /\ ~panicked
    /\ rpc = "scan"
    /\ released.under > 0
    /\ rpc' = "done"
    /\ UNCHANGED <<mode, closed, mu, nextID, pendingRequests, chanBuf,
                   chanClosed, pc, cid, ctxDone, timerFired, outcome, got,
                   populated, rhold, inbound, outbound, stdinOK,
                   requestHandler, notificationHandler, released, closeRets,
                   closePending, panicked, ctor, sessionID, lastSessionID,
                   hSession, hpc, hHdr, hResp, hOutcome, hCloseRets, hExch,
                   hLastGet, hRespBody, client, clientLast, locks>>

\* readMessages, lines 224-229, with the scanner of line 114 or 199, whose
\* buffer is the default one: a line longer than the buffer makes Scan
\* return false with an error, which is printed, and the loop returns.
ReaderLineTooLong ==
    /\ ~panicked
    /\ rpc = "scan"
    /\ inbound < MaxInbound
    /\ inbound' = inbound + 1
    /\ rpc' = "done"
    /\ UNCHANGED <<mode, closed, mu, nextID, pendingRequests, chanBuf,
                   chanClosed, pc, cid, ctxDone, timerFired, outcome, got,
                   populated, rhold, outbound, stdinOK, requestHandler,
                   notificationHandler, released, closeRets, closePending,
                   panicked, ctor, sessionID, lastSessionID, hSession, hpc,
                   hHdr, hResp, hOutcome, hCloseRets, hExch, hLastGet,
                   hRespBody, client, clientLast, locks>>

\* A loop that takes the next line whatever it is doing with the one in
\* hand: with it in place of LoopScanning the formula of C30 fails.
LoopAlwaysScanning(at) == TRUE

\* readMessages, lines 218-236: Scan is called by the one loop, after
\* processMessage has returned for the line before.
LoopScanning(at) == at = "scan"

\* A lookup that finds an entry for every id: with it in place of
\* EntryExists the formula of C29 fails.
EntryAssumed(pending, i) == TRUE

\* handleResponse, line 279: the lookup of the id in the pending map.
EntryExists(pending, i) == i \in pending

\* A lookup that leaves the entry in the map: with it in place of TakeEntry
\* the formula of C25 fails.
LeaveEntry(pending, i) == pending

\* handleResponse, lines 278-283: the entry found is deleted under
\* requestsMu before the response is built and sent.
TakeEntry(pending, i) == pending \ {i}

\* readMessages, lines 231-236, and processMessage: one line is scanned and
\* dispatched.  For a response handleResponse runs up to line 283 (the entry
\* is looked up and deleted under requestsMu); for a server request
\* handleServerRequest runs up to its call of sendMessage; for a line
\* without an id handleNotification runs up to the handler's return; a line
\* that is not JSON changes nothing of the transport.
ReaderLine(m) ==
    /\ ~panicked
    /\ LoopScanning(rpc)
    /\ inbound < MaxInbound
    /\ inbound' = inbound + 1
    /\ CASE Dispatch(m) = "response"
                /\ EntryExists(pendingRequests, ResponseKey(m)) ->
              /\ pendingRequests' = TakeEntry(pendingRequests, ResponseKey(m))
              /\ rpc' = "deliver"
              /\ rhold' = [NoHold EXCEPT !.kind = "response", !.line = m,
                                         !.target = ResponseKey(m),
                                         !.resp = TranslateResponse(m)]
         [] Dispatch(m) = "request" ->
              /\ rpc' = "replyLock"
              /\ \E ok \in HandlerReturns(m, requestHandler) :
                    rhold' = [NoHold EXCEPT !.kind = "reply", !.line = m,
                                            !.handler = requestHandler,
                                            !.ncalls = HandlerCalls(m, requestHandler),
                                            !.hret = HandlerReturned(m, requestHandler, ok),
                                            !.reply = ReplyFor(m, requestHandler, ok)]
              /\ UNCHANGED pendingRequests
         [] Dispatch(m) = "notification" ->
              /\ rpc' = "notify"
              /\ rhold' = [NoHold EXCEPT !.kind = "notify", !.line = m,
                                         !.handler = notificationHandler,
                                         !.ncalls = NotifyCalls(m, notificationHandler)]
              /\ UNCHANGED pendingRequests
         [] OTHER ->
              /\ rpc' = LoopTop
              /\ UNCHANGED <<rhold, pendingRequests>>
    /\ UNCHANGED <<mode, closed, mu, nextID, chanBuf, chanClosed, pc, cid,
                   ctxDone, timerFired, outcome, got, populated, outbound,
                   stdinOK, requestHandler, notificationHandler, released,
                   closeRets, closePending, panicked, ctor, sessionID,
                   lastSessionID, hSession, hpc, hHdr, hResp, hOutcome,
                   hCloseRets, hExch, hLastGet, hRespBody, client,
                   clientLast, locks>>

\* handleNotification, lines 352-353, and processMessage, line 266.  The
\* field tested at line 351 is read a second time for the call, with no
\* lock around the two reads: the handler called is the one stored now,
\* and the call of a nil function value panics.  Otherwise the handler, if
\* one was called, returns, and so does handleNotification.
ReaderNotifyReturn ==
    /\ ~panicked
    /\ rpc = "notify"
    /\ IF rhold.ncalls = 1 /\ notificationHandler = "nil"
         THEN /\ panicked' = TRUE
              /\ UNCHANGED <<rpc, rhold>>
         ELSE /\ rpc' = LoopTop
              /\ rhold' = NoHold
              /\ UNCHANGED panicked
    /\ UNCHANGED <<mode, closed, mu, nextID, pendingRequests, chanBuf,
                   chanClosed, pc, cid, ctxDone, timerFired, outcome, got,
                   populated, inbound, outbound, stdinOK, requestHandler,
                   notificationHandler, released, closeRets, closePending,
                   ctor, sessionID, lastSessionID, hSession, hpc, hHdr,
                   hResp, hOutcome, hCloseRets, hExch, hLastGet, hRespBody,
                   client, clientLast, locks>>

\* handleResponse, lines 312-316: the send on the call's channel.  The
\* entry was taken out of the map by this loop, so the slot is free unless
\* the Call has returned meanwhile: a send on a closed channel panics.
ReaderDeliver ==
    /\ ~panicked
    /\ rpc = "deliver"
    /\ IF chanClosed[rhold.target]
         THEN /\ panicked' = TRUE
              /\ UNCHANGED chanBuf
         ELSE /\ chanBuf' = [chanBuf EXCEPT ![rhold.target] =
                               IF @ = <<>> THEN <<rhold.resp>> ELSE @]
              /\ UNCHANGED panicked
    /\ rpc' = LoopTop
    /\ rhold' = NoHold
    /\ UNCHANGED <<mode, closed, mu, nextID, pendingRequests, chanClosed, pc,
                   cid, ctxDone, timerFired, outcome, got, populated,
                   inbound, outbound, stdinOK, requestHandler,
                   notificationHandler, released, closeRets, closePending,
                   ctor, sessionID, lastSessionID, hSession, hpc, hHdr,
                   hResp, hOutcome, hCloseRets, hExch, hLastGet, hRespBody,
                   client, clientLast, locks>>

\* sendMessage called for a reply, lines 388-393: the write lock and the
\* closed check; on a closed transport the reply is dropped.
ReaderReplyLock ==
    /\ ~panicked
    /\ rpc = "replyLock"
    /\ LockFree(mu)
    /\ IF SendRefused(closed)
         THEN /\ rpc' = LoopTop
              /\ rhold' = NoHold
              /\ UNCHANGED mu
         ELSE /\ rpc' = "replyWrite"
              /\ mu' = "reader"
              /\ UNCHANGED rhold
    /\ UNCHANGED <<mode, closed, nextID, pendingRequests, chanBuf,
                   chanClosed, pc, cid, ctxDone, timerFired, outcome, got,
                   populated, inbound, outbound, stdinOK, requestHandler,
                   notificationHandler, released, closeRets, closePending,
                   panicked, ctor, sessionID, lastSessionID, hSession, hpc,
                   hHdr, hResp, hOutcome, hCloseRets, hExch, hLastGet,
                   hRespBody, client, clientLast, locks>>

\* sendMessage called for a reply, lines 395-396: the write of the reply
\* line; sendErrorResponse and sendSuccessResponse ignore its error.
ReaderReplyWrite ==
    /\ ~panicked
    /\ rpc = "replyWrite"
    /\ mu = "reader"
    /\ mu' = "free"
    /\ outbound' = IF stdinOK THEN Append(outbound, rhold.reply) ELSE outbound
    /\ rpc' = LoopTop
    /\ rhold' = NoHold
    /\ UNCHANGED <<mode, closed, nextID, pendingRequests, chanBuf,
                   chanClosed, pc, cid, ctxDone, timerFired, outcome, got,
                   populated, inbound, stdinOK, requestHandler,
                   notificationHandler, released, closeRets, closePending,
                   panicked, ctor, sessionID, lastSessionID, hSession, hpc,
                   hHdr, hResp, hOutcome, hCloseRets, hExch, hLastGet,
                   hRespBody, client, clientLast, locks>>

\* SetNotificationHandler, lines 400-402.
SetNotificationHandler(h) ==
    /\ ~panicked
    /\ notificationHandler # h
    /\ notificationHandler' = h
    /\ UNCHANGED <<mode, closed, mu, nextID, pendingRequests, chanBuf,
                   chanClosed, pc, cid, ctxDone, timerFired, outcome, got,
                   populated, rpc, rhold, inbound, outbound, stdinOK,
                   requestHandler, released, closeRets, closePending,
                   panicked, ctor, sessionID, lastSessionID, hSession, hpc,
                   hHdr, hResp, hOutcome, hCloseRets, hExch, hLastGet,
                   hRespBody, client, clientLast, locks>>

\* SetRequestHandler, lines 405-407.
SetRequestHandler(h) ==
    /\ ~panicked
    /\ requestHandler # h
    /\ requestHandler' = h
    /\ UNCHANGED <<mode, closed, mu, nextID, pendingRequests, chanBuf,
                   chanClosed, pc, cid, ctxDone, timerFired, outcome, got,
                   populated, rpc, rhold, inbound, outbound, stdinOK,
                   notificationHandler, released, closeRets, closePending,
                   panicked, ctor, sessionID, lastSessionID, hSession, hpc,
                   hHdr, hResp, hOutcome, hCloseRets, hExch, hLastGet,
                   hRespBody, client, clientLast, locks>>

\* The child stops reading its input: later writes to stdin fail.
StdinBreaks ==
    /\ ~panicked
    /\ stdinOK
    /\ stdinOK' = FALSE
    /\ UNCHANGED <<mode, closed, mu, nextID, pendingRequests, chanBuf,
                   chanClosed, pc, cid, ctxDone, timerFired, outcome, got,
                   populated, rpc, rhold, inbound, outbound, requestHandler,
                   notificationHandler, released, closeRets, closePending,
                   panicked, ctor, sessionID, lastSessionID, hSession, hpc,
                   hHdr, hResp, hOutcome, hCloseRets, hExch, hLastGet,
                   hRespBody, client, clientLast, locks>>

\* ------------------------------------------------------------------ Close
\* Close, lines 520-525: the synthetic response sent to every pending call.
ClosedResponse ==
    [src |-> NoLine, Result |-> "nil",
     Error |-> [kind |-> "err", Code |-> TransportClosedCode,
                Message |-> "Transport closed", Data |-> "nil"]]

\* A sweep that sends nothing: with it in place of SweepSend the formula of
\* C2 fails.
SweepSendNothing(buf) == buf

\* Close, lines 519-527: the non-blocking send on one pending channel.
SweepSend(buf) == IF buf = <<>> THEN <<ClosedResponse>> ELSE buf

\* A Close that skips the check of the flag: with it in place of
\* AlreadyClosed the formula of C3 fails.
AlreadyClosedSkipped == FALSE

\* GetSessionID, lines 496-500: the field is read under the read lock, which
\* is not granted while sendMessage or Close holds the write lock.
GetSessionID ==
    /\ mu = "free"
    /\ lastSessionID' = sessionID
    /\ UNCHANGED <<mode, closed, mu, nextID, pendingRequests, chanBuf,
                   chanClosed, pc, cid, ctxDone, timerFired, outcome, got,
                   populated, rpc, rhold, inbound, outbound, stdinOK,
                   requestHandler, notificationHandler, released, closeRets,
                   closePending, panicked, ctor, sessionID, hSession, hpc,
                   hHdr, hResp, hOutcome, hCloseRets, hExch, hLastGet,
                   hRespBody, client, clientLast, locks>>

\* Close, lines 507-509: the check that makes later invocations no-ops.
AlreadyClosed == closed

\* Handles whose Close closes the stream under them too: with it in place
\* of ClosesUnderlying the formula of C19 fails.
ClosesUnderlyingAlways(m) == 1

\* How often one Close of the three handles closes the streams under them:
\* NewStdioTransportFromOS wraps the process's own streams in nopCloser,
\* whose Close (lines 148-150) does nothing.
ClosesUnderlying(m) == IF m = "os" THEN 0 ELSE 1

\* Close, lines 504-541: under the write lock, an already closed transport
\* returns nil at once; otherwise the flag is set, the stop signal closed,
\* the pending map swept and emptied, and the three streams closed.
CloseBegin ==
    /\ ~panicked
    /\ LockFree(mu)
    /\ Len(closeRets) < MaxCloses
    /\ IF AlreadyClosed
         THEN /\ closeRets' = Append(closeRets, "nil")
              /\ UNCHANGED <<closed, mu, released, pendingRequests, chanBuf,
                             closePending>>
         ELSE /\ closed' = TRUE
              /\ mu' = "close"
              /\ released' = [released EXCEPT !.stop = @ + 1, !.stdin = @ + 1,
                                              !.stdout = @ + 1, !.stderr = @ + 1,
                                              !.under = @ + ClosesUnderlying(mode)]
              /\ closePending' = pendingRequests
              /\ pendingRequests' = {}
              /\ chanBuf' = [i \in Ids |->
                               IF i \in pendingRequests /\ ~chanClosed[i]
                                 THEN SweepSend(chanBuf[i]) ELSE chanBuf[i]]
              /\ UNCHANGED closeRets
    /\ UNCHANGED <<mode, nextID, chanClosed, pc, cid, ctxDone, timerFired,
                   outcome, got, populated, rpc, rhold, inbound, outbound,
                   stdinOK, requestHandler, notificationHandler, panicked,
                   ctor, sessionID, lastSessionID, hSession, hpc, hHdr,
                   hResp, hOutcome, hCloseRets, hExch, hLastGet, hRespBody,
                   client, clientLast, locks>>

\* Close, lines 543-569: the bounded wait for readerDone; then, for a child
\* the transport spawned, cmd.Wait within the grace period, whose error is
\* returned, or Kill and a second cmd.Wait, whose error is returned.
CloseFinish(ret, kill) ==
    /\ ~panicked
    /\ mu = "close"
    /\ mu' = "free"
    /\ IF mode = "spawn"
         THEN /\ kill => ret = "waiterr"
              /\ closeRets' = Append(closeRets, ret)
              /\ released' = IF kill
                               THEN [released EXCEPT !.wait = @ + 2, !.kill = @ + 1]
                               ELSE [released EXCEPT !.wait = @ + 1]
         ELSE /\ ret = "nil"
              /\ ~kill
              /\ closeRets' = Append(closeRets, "nil")
              /\ UNCHANGED released
    /\ UNCHANGED <<mode, closed, nextID, pendingRequests, chanBuf,
                   chanClosed, pc, cid, ctxDone, timerFired, outcome, got,
                   populated, rpc, rhold, inbound, outbound, stdinOK,
                   requestHandler, notificationHandler, closePending,
                   panicked, ctor, sessionID, lastSessionID, hSession, hpc,
                   hHdr, hResp, hOutcome, hCloseRets, hExch, hLastGet,
                   hRespBody, client, clientLast, locks>>

\* ------------------------------------------------- SessionAwareHTTPClient
\* HTTPTransport.Call -> CallFor -> SessionAwareHTTPClient.Do, lines
\* 400-402: the stored id is read without synchronization and, if it is
\* not empty, set as the request's Mcp-Session-Id header.
HDoAttach(t) ==
    /\ hpc[t] = "idle"
    /\ hExch < MaxExchanges
    /\ hHdr' = [hHdr EXCEPT ![t] = ReadStr(hSession)]
    /\ hpc' = [hpc EXCEPT ![t] = "attached"]
    /\ UNCHANGED <<mode, closed, mu, nextID, pendingRequests, chanBuf,
                   chanClosed, pc, cid, ctxDone, timerFired, outcome, got,
                   populated, rpc, rhold, inbound, outbound, stdinOK,
                   requestHandler, notificationHandler, released, closeRets,
                   closePending, panicked, ctor, sessionID, lastSessionID,
                   hSession, hResp, hOutcome, hCloseRets, hExch, hLastGet,
                   hRespBody, client, clientLast, locks>>

\* Do, line 404: the request goes out.
HDoSend(t) ==
    /\ hpc[t] = "attached"
    /\ hExch' = hExch + 1
    /\ hpc' = [hpc EXCEPT ![t] = "sent"]
    /\ UNCHANGED <<mode, closed, mu, nextID, pendingRequests, chanBuf,
                   chanClosed, pc, cid, ctxDone, timerFired, outcome, got,
                   populated, rpc, rhold, inbound, outbound, stdinOK,
                   requestHandler, notificationHandler, released, closeRets,
                   closePending, panicked, ctor, sessionID, lastSessionID,
                   hSession, hHdr, hResp, hOutcome, hCloseRets, hLastGet,
                   hRespBody, client, clientLast, locks>>

\* Do, lines 404-407: the exchange fails and Do returns the error.
HDoFail(t) ==
    /\ hpc[t] = "sent"
    /\ hpc' = [hpc EXCEPT ![t] = "idle"]
    /\ hOutcome' = [hOutcome EXCEPT ![t] = "neterr"]
    /\ UNCHANGED <<mode, closed, mu, nextID, pendingRequests, chanBuf,
                   chanClosed, pc, cid, ctxDone, timerFired, outcome, got,
                   populated, rpc, rhold, inbound, outbound, stdinOK,
                   requestHandler, notificationHandler, released, closeRets,
                   closePending, panicked, ctor, sessionID, lastSessionID,
                   hSession, hHdr, hResp, hCloseRets, hExch, hLastGet,
                   hRespBody, client, clientLast, locks>>

\* Do, lines 404-410 and 424: a response arrives, with the session id sid in
\* its Mcp-Session-Id header (0: without one, and Do returns).
HDoResponse(t, sid) ==
    /\ hpc[t] = "sent"
    /\ IF sid = 0
         THEN /\ hpc' = [hpc EXCEPT ![t] = "idle"]
              /\ hOutcome' = [hOutcome EXCEPT ![t] = "ok"]
              /\ UNCHANGED hResp
         ELSE /\ hpc' = [hpc EXCEPT ![t] = "store"]
              /\ hResp' = [hResp EXCEPT ![t] = sid]
              /\ UNCHANGED hOutcome
    /\ UNCHANGED <<mode, closed, mu, nextID, pendingRequests, chanBuf,
                   chanClosed, pc, cid, ctxDone, timerFired, outcome, got,
                   populated, rpc, rhold, inbound, outbound, stdinOK,
                   requestHandler, notificationHandler, released, closeRets,
                   closePending, panicked, ctor, sessionID, lastSessionID,
                   hSession, hHdr, hCloseRets, hExch, hLastGet, hRespBody,
                   client, clientLast, locks>>

\* Do, line 411: the unsynchronized store of the two-word string begins
\* with either word.
HDoStoreBegin(t) ==
    /\ hpc[t] = "store"
    /\ \/ /\ hSession' = [hSession EXCEPT !.ptr = hResp[t]]
          /\ hpc' = [hpc EXCEPT ![t] = "storeLen"]
       \/ /\ hSession' = [hSession EXCEPT !.len = hResp[t]]
          /\ hpc' = [hpc EXCEPT ![t] = "storePtr"]
    /\ UNCHANGED <<mode, closed, mu, nextID, pendingRequests, chanBuf,
                   chanClosed, pc, cid, ctxDone, timerFired, outcome, got,
                   populated, rpc, rhold, inbound, outbound, stdinOK,
                   requestHandler, notificationHandler, released, closeRets,
                   closePending, panicked, ctor, sessionID, lastSessionID,
                   hHdr, hResp, hOutcome, hCloseRets, hExch, hLastGet,
                   hRespBody, client, clientLast, locks>>

\* Do, lines 411 and 424: the store's other word is written and Do returns.
HDoStoreEnd(t) ==
    /\ hpc[t] \in {"storeLen", "storePtr"}
    /\ hSession' = IF hpc[t] = "storeLen"
                     THEN [hSession EXCEPT !.len = hResp[t]]
                     ELSE [hSession EXCEPT !.ptr = hResp[t]]
    /\ hpc' = [hpc EXCEPT ![t] = "idle"]
    /\ hResp' = [hResp EXCEPT ![t] = 0]
    /\ hOutcome' = [hOutcome EXCEPT ![t] = "ok"]
    /\ UNCHANGED <<mode, closed, mu, nextID, pendingRequests, chanBuf,
                   chanClosed, pc, cid, ctxDone, timerFired, outcome, got,
                   populated, rpc, rhold, inbound, outbound, stdinOK,
                   requestHandler, notificationHandler, released, closeRets,
                   closePending, panicked, ctor, sessionID, lastSessionID,
                   hHdr, hCloseRets, hExch, hLastGet, hRespBody, client,
                   clientLast, locks>>

\* HTTPTransport.GetSessionID -> SessionAwareHTTPClient.GetSessionID.
HGetSessionID ==
    /\ hLastGet # ReadStr(hSession)
    /\ hLastGet' = ReadStr(hSession)
    /\ UNCHANGED <<mode, closed, mu, nextID, pendingRequests, chanBuf,
                   chanClosed, pc, cid, ctxDone, timerFired, outcome, got,
                   populated, rpc, rhold, inbound, outbound, stdinOK,
                   requestHandler, notificationHandler, released, closeRets,
                   closePending, panicked, ctor, sessionID, lastSessionID,
                   hSession, hpc, hHdr, hResp, hOutcome, hCloseRets, hExch,
                   hRespBody, client, clientLast, locks>>

\* HTTPTransport.Close: returns nil and does nothing else.
HClose ==
    /\ Len(hCloseRets) < MaxCloses
    /\ hCloseRets' = Append(hCloseRets, "nil")
    /\ UNCHANGED <<mode, closed, mu, nextID, pendingRequests, chanBuf,
                   chanClosed, pc, cid, ctxDone, timerFired, outcome, got,
                   populated, rpc, rhold, inbound, outbound, stdinOK,
                   requestHandler, notificationHandler, released, closeRets,
                   closePending, panicked, ctor, sessionID, lastSessionID,
                   hSession, hpc, hHdr, hResp, hOutcome, hExch, hLastGet,
                   hRespBody, client, clientLast, locks>>

\* --------------------------------------------------------- specifications
\* Two threads calling on one subprocess transport while the server's
\* responses arrive in any order and the transport is closed.
Next ==
    \/ \E c \in Callers : CallBegin(c)
    \/ \E c \in Callers : CallRegister(c)
    \/ \E c \in Callers : CallSendLock(c)
    \/ \E c \in Callers : CallSendWrite(c)
    \/ \E c \in Callers : CtxEnd(c)
    \/ \E c \in Callers : TimerFire(c)
    \/ \E c \in Callers : CallReceive(c)
    \/ \E c \in Callers : CallCtxDone(c)
    \/ \E c \in Callers : CallTimeout(c)
    \/ \E m \in Responses : ReaderLine(m)
    \/ ReaderDeliver
    \/ ReaderScanEnd
    \/ CloseBegin
    \/ \E ret \in {"nil", "waiterr"}, kill \in BOOLEAN : CloseFinish(ret, kill)

Spec == Init /\ [][Next]_vars

\* One thread calling on a transport over a spawned child that sends requests,
\* notifications, lines that are not JSON and responses of every shape,
\* while handlers are registered, the child may stop reading, and the
\* transport is closed.
ServerLines == ServerRequests \cup Notifications \cup {NoLine} \cup SoloResponses

NextServer ==
    \/ CallBegin("a")
    \/ CallRegister("a")
    \/ CallSendLock("a")
    \/ CallSendWrite("a")
    \/ CallReceive("a")
    \/ \E m \in ServerLines : ReaderLine(m)
    \/ ReaderDeliver
    \/ ReaderReplyLock
    \/ ReaderReplyWrite
    \/ ReaderNotifyReturn
    \/ ReaderScanEnd
    \/ \E h \in {"nil", "h1"} : SetRequestHandler(h)
    \/ StdinBreaks
    \/ CloseBegin
    \/ \E ret \in {"nil", "waiterr"}, kill \in BOOLEAN : CloseFinish(ret, kill)

InitServer == Init /\ mode = "spawn"

SpecServer == InitServer /\ [][NextServer]_vars

\* Threads calling through one HTTP transport.
NextHTTP ==
    \/ \E t \in HThreads : HDoAttach(t)
    \/ \E t \in HThreads : HDoSend(t)
    \/ \E t \in HThreads : HDoFail(t)
    \/ \E t \in HThreads, sid \in {0} \cup SessionIds : HDoResponse(t, sid)
    \/ \E t \in HThreads : HDoStoreBegin(t)
    \/ \E t \in HThreads : HDoStoreEnd(t)
    \/ HGetSessionID

SpecHTTP == Init /\ [][NextHTTP]_vars

\* A subprocess transport and an HTTP transport, each used by one thread
\* and closed any number of times.
NextClose ==
    \/ CallBegin("a")
    \/ CallRegister("a")
    \/ CallSendLock("a")
    \/ CallSendWrite("a")
    \/ CallReceive("a")
    \/ ReaderScanEnd
    \/ CloseBegin
    \/ \E ret \in {"nil", "waiterr"}, kill \in BOOLEAN : CloseFinish(ret, kill)
    \/ HDoAttach("t1")
    \/ HDoSend("t1")
    \/ HDoFail("t1")
    \/ \E sid \in {0} \cup SessionIds : HDoResponse("t1", sid)
    \/ HDoStoreBegin("t1")
    \/ HDoStoreEnd("t1")
    \/ HClose

SpecClose == Init /\ [][NextClose]_vars

\* One thread calling on a transport whose server sends lines without an id
\* and one response, while notification handlers are registered.
NextNotify ==
    \/ CallBegin("a")
    \/ CallRegister("a")
    \/ CallSendLock("a")
    \/ CallSendWrite("a")
    \/ CallReceive("a")
    \/ \E m \in NotifyLines \cup {Msg(NumId(4), "r1", NoErr, "absent")} : ReaderLine(m)
    \/ ReaderDeliver
    \/ ReaderNotifyReturn
    \/ ReaderScanEnd
    \/ \E h \in {"nil", "n1"} : SetNotificationHandler(h)

SpecNotify == InitServer /\ [][NextNotify]_vars

\* One thread calling, with a context that may end and a timer that may
\* fire, on a transport whose server sends a line of each kind, over-long
\* lines among them, and may stop reading, while the session id is asked
\* for and the transport is closed.
SessionLines ==
    {Msg(NumId(14), "absent", NoErr, "m1"), Msg(NoId, "absent", NoErr, "m1"),
     NoLine, Msg(NumId(4), "r1", NoErr, "absent")}

NextSession ==
    \/ CallBegin("a")
    \/ CallRegister("a")
    \/ CallSendLock("a")
    \/ CallSendWrite("a")
    \/ CtxEnd("a")
    \/ TimerFire("a")
    \/ CallReceive("a")
    \/ CallCtxDone("a")
    \/ CallTimeout("a")
    \/ StdinBreaks
    \/ \E m \in SessionLines : ReaderLine(m)
    \/ ReaderLineTooLong
    \/ ReaderDeliver
    \/ ReaderReplyLock
    \/ ReaderReplyWrite
    \/ ReaderNotifyReturn
    \/ ReaderScanEnd
    \/ CloseBegin
    \/ \E ret \in {"nil", "waiterr"}, kill \in BOOLEAN : CloseFinish(ret, kill)
    \/ GetSessionID

SpecSession == InitServer /\ [][NextSession]_vars

\* Two threads calling on a transport whose server sends requests, so that
\* requests and replies are written by three writers, while the child may
\* stop reading and the transport is closed.
NextWrite ==
    \/ \E c \in Callers : CallBegin(c)
    \/ \E c \in Callers : CallRegister(c)
    \/ \E c \in Callers : CallSendLock(c)
    \/ \E c \in Callers : CallSendWrite(c)
    \/ ReaderLine(Msg(NumId(14), "absent", NoErr, "m1"))
    \/ ReaderReplyLock
    \/ ReaderReplyWrite
    \/ ReaderScanEnd
    \/ StdinBreaks
    \/ CloseBegin
    \/ \E ret \in {"nil", "waiterr"}, kill \in BOOLEAN : CloseFinish(ret, kill)

SpecWrite == Init /\ [][NextWrite]_vars

\* One thread calling, with a context that may end and a timer that may
\* fire, on a transport whose server sends responses with any id at any
\* time.
NextDrop ==
    \/ CallBegin("a")
    \/ CallRegister("a")
    \/ CallSendLock("a")
    \/ CallSendWrite("a")
    \/ CtxEnd("a")
    \/ TimerFire("a")
    \/ CallReceive("a")
    \/ CallCtxDone("a")
    \/ CallTimeout("a")
    \/ \E m \in Responses : ReaderLine(m)
    \/ ReaderDeliver
    \/ ReaderScanEnd
    \/ CloseBegin
    \/ \E ret \in {"nil", "waiterr"}, kill \in BOOLEAN : CloseFinish(ret, kill)

SpecDrop == Init /\ [][NextDrop]_vars


\* One thread calling, with a timer that may fire, on a transport built in
\* any of the three ways, whose server sends requests and notifications to
\* registered handlers, may stop reading and may end its output, while the
\* transport is closed.
ShutdownLines ==
    {Msg(NumId(14), "absent", NoErr, "m1"), Msg(NoId, "absent", NoErr, "m1")}

NextShutdown ==
    \/ CallBegin("a")
    \/ CallRegister("a")
    \/ CallSendLock("a")
    \/ CallSendWrite("a")
    \/ TimerFire("a")
    \/ CallReceive("a")
    \/ CallTimeout("a")
    \/ SetNotificationHandler("n1")
    \/ SetRequestHandler("h1")
    \/ \E m \in ShutdownLines : ReaderLine(m)
    \/ ReaderReplyLock
    \/ ReaderReplyWrite
    \/ ReaderNotifyReturn
    \/ ReaderScanEnd
    \/ ReaderScanClosed
    \/ StdinBreaks
    \/ CloseBegin
    \/ \E ret \in {"nil", "waiterr"}, kill \in BOOLEAN : CloseFinish(ret, kill)

SpecShutdown == Init /\ [][NextShutdown]_vars

\* The same transport with the progress its own code makes.  Every goroutine
\* is scheduled: a Call goes on to register, to ask for the write lock and to
\* leave its select once a case is ready; the timer, once started, fires;
\* the loop asks for the write lock, a handler returns, and Scan returns
\* when the stream was closed under it; Close is called, gets the lock when
\* it is free, and its bounded waits end.  What waits for the child has no
\* such guarantee: a write to its input fails at once on a broken pipe but
\* otherwise ends when the child takes the bytes, a line arrives when the
\* child writes one, the output ends when the child ends it.
ShutdownFairness ==
    /\ WF_vars(~stdinOK /\ CallSendWrite("a"))
    /\ WF_vars(~stdinOK /\ ReaderReplyWrite)
    /\ WF_vars(CallRegister("a"))
    /\ WF_vars(CallSendLock("a"))
    /\ WF_vars(TimerFire("a"))
    /\ WF_vars(CallReceive("a"))
    /\ WF_vars(CallTimeout("a"))
    /\ WF_vars(ReaderReplyLock)
    /\ WF_vars(ReaderNotifyReturn)
    /\ WF_vars(ReaderScanClosed)
    /\ WF_vars(CloseBegin)
    /\ WF_vars(\E ret \in {"nil", "waiterr"}, kill \in BOOLEAN : CloseFinish(ret, kill))

SpecLive == Init /\ [][NextShutdown]_vars /\ ShutdownFairness
\* ----------------------------------------------------------------- Client
\* The capabilities a server can advertise that gate client operations.
Capabilities == {"tools", "resources", "prompts"}

CapSets == SUBSET Capabilities

CachedCapabilities(c) == [cached |-> TRUE, members |-> c]

ServerInfos == {"srvA", "srvB"}

TransportErrors == {"e1", "e2"}

\* What the transport's Call does for "initialize": it returns an error or
\* nil, and has decoded some InitializeResult into the caller's result.
InitializeAnswers ==
    [err : {"nil"} \cup TransportErrors, serverInfo : ServerInfos,
     capabilities : CapSets]

\* What the transport's Call does for the other methods.
OperationAnswers == [err : {"nil"} \cup TransportErrors, result : {"r1", "r2"}]

\* The operations that start with a capability check, the capability each
\* one asks for and the method it calls.
GatedOps == {"ListTools", "CallTool", "ListResources", "ReadResource",
             "ListPrompts", "GetPrompt"}

HasOps == {"HasTools", "HasResources", "HasPrompts"}

CapabilityOf(op) ==
    CASE op \in {"ListTools", "CallTool", "HasTools"} -> "tools"
      [] op \in {"ListResources", "ReadResource", "HasResources"} -> "resources"
      [] op \in {"ListPrompts", "GetPrompt", "HasPrompts"} -> "prompts"

MethodOf(op) ==
    CASE op = "ListTools" -> "tools/list"
      [] op = "CallTool" -> "tools/call"
      [] op = "ListResources" -> "resources/list"
      [] op = "ReadResource" -> "resources/read"
      [] op = "ListPrompts" -> "prompts/list"
      [] op = "GetPrompt" -> "prompts/get"

\* NewClient: the transport is the configured one, nil when none was given.
NewClient(t) ==
    /\ client = NoClient
    /\ client' = [NoClient EXCEPT !.transport = t]
    /\ UNCHANGED <<mode, closed, mu, nextID, pendingRequests, chanBuf,
                   chanClosed, pc, cid, ctxDone, timerFired, outcome, got,
                   populated, rpc, rhold, inbound, outbound, stdinOK,
                   requestHandler, notificationHandler, released, closeRets,
                   closePending, panicked, ctor, sessionID, lastSessionID,
                   hSession, hpc, hHdr, hResp, hOutcome, hCloseRets, hExch,
                   hLastGet, hRespBody, clientLast, locks>>

ClientUsable ==
    /\ client.transport # "none"
    /\ ~panicked
    /\ clientLast.n < MaxClientOps

\* A capability check that lets every operation through: with it in place
\* of HasCapability the formula of C17 fails.
HasCapabilityAlways(caps, cap) == TRUE

\* HasTools, HasResources, HasPrompts: the capabilities are cached and the
\* member for this capability is set.
HasCapability(caps, cap) == caps.cached /\ cap \in caps.members

\* An Initialize that stores the decoded result whatever Call returned:
\* with it in place of CachedAfterInitialize the formula of C18 fails.
CachedAlways(c, ans) ==
    [c EXCEPT !.serverInfo = ans.serverInfo,
              !.capabilities = CachedCapabilities(ans.capabilities)]

\* Initialize returns before its assignments when Call failed.
CachedAfterInitialize(c, ans) ==
    IF ans.err # "nil" THEN c
    ELSE [c EXCEPT !.serverInfo = ans.serverInfo,
                   !.capabilities = CachedCapabilities(ans.capabilities)]

\* A method call on the nil transport interface panics.
ClientPanics(op) ==
    /\ panicked' = TRUE
    /\ clientLast' = [n |-> clientLast.n + 1, op |-> op, calls |-> <<>>,
                      answer |-> NoAnswer, ret |-> "nil", err |-> "panic"]
    /\ client' = client

Initialize(ans) ==
    /\ ClientUsable
    /\ IF client.transport = "nil" THEN ClientPanics("Initialize")
       ELSE /\ client' = CachedAfterInitialize(client, ans)
            /\ clientLast' = [n |-> clientLast.n + 1, op |-> "Initialize",
                              calls |-> <<"initialize">>, answer |-> ans,
                              ret |-> "nil", err |-> ans.err]
            /\ panicked' = panicked
    /\ UNCHANGED <<mode, closed, mu, nextID, pendingRequests, chanBuf,
                   chanClosed, pc, cid, ctxDone, timerFired, outcome, got,
                   populated, rpc, rhold, inbound, outbound, stdinOK,
                   requestHandler, notificationHandler, released, closeRets,
                   closePending, ctor, sessionID, lastSessionID, hSession,
                   hpc, hHdr, hResp, hOutcome, hCloseRets, hExch, hLastGet,
                   hRespBody, locks>>

\* ListTools, CallTool, ListResources, ReadResource, ListPrompts, GetPrompt.
GatedOp(op, ans) ==
    /\ ClientUsable
    /\ IF ~HasCapability(client.capabilities, CapabilityOf(op))
         THEN /\ clientLast' = [n |-> clientLast.n + 1, op |-> op,
                                calls |-> <<>>, answer |-> NoAnswer,
                                ret |-> "nil", err |-> "nil"]
              /\ client' = client
              /\ panicked' = panicked
         ELSE IF client.transport = "nil" THEN ClientPanics(op)
         ELSE /\ clientLast' = [n |-> clientLast.n + 1, op |-> op,
                                calls |-> <<MethodOf(op)>>, answer |-> ans,
                                ret |-> IF ans.err = "nil" THEN ans.result
                                        ELSE "nil",
                                err |-> ans.err]
              /\ client' = client
              /\ panicked' = panicked
    /\ UNCHANGED <<mode, closed, mu, nextID, pendingRequests, chanBuf,
                   chanClosed, pc, cid, ctxDone, timerFired, outcome, got,
                   populated, rpc, rhold, inbound, outbound, stdinOK,
                   requestHandler, notificationHandler, released, closeRets,
                   closePending, ctor, sessionID, lastSessionID, hSession,
                   hpc, hHdr, hResp, hOutcome, hCloseRets, hExch, hLastGet,
                   hRespBody, locks>>

HasOp(op) ==
    /\ ClientUsable
    /\ clientLast' = [n |-> clientLast.n + 1, op |-> op, calls |-> <<>>,
                      answer |-> NoAnswer,
                      ret |-> IF HasCapability(client.capabilities,
                                               CapabilityOf(op))
                                THEN "true" ELSE "false",
                      err |-> "nil"]
    /\ UNCHANGED <<mode, closed, mu, nextID, pendingRequests, chanBuf,
                   chanClosed, pc, cid, ctxDone, timerFired, outcome, got,
                   populated, rpc, rhold, inbound, outbound, stdinOK,
                   requestHandler, notificationHandler, released, closeRets,
                   closePending, panicked, ctor, sessionID, lastSessionID,
                   hSession, hpc, hHdr, hResp, hOutcome, hCloseRets, hExch,
                   hLastGet, hRespBody, client, locks>>

NextClient ==
    \/ \E t \in {"nil", "mock"} : NewClient(t)
    \/ \E ans \in InitializeAnswers : Initialize(ans)
    \/ \E op \in GatedOps, ans \in OperationAnswers : GatedOp(op, ans)
    \/ \E op \in HasOps : HasOp(op)

SpecClient == InitServer /\ [][NextClient]_vars

\* ------------------------------------------- NewStdioTransportWithConfig
\* Configurations: with and without a command, a working directory, an
\* environment.
Configs == [Command : {"", "server"}, WorkingDir : {"", "/w"}, Env : {<<>>, <<"K=V">>}]

\* NewStdioTransportWithConfig is entered with some configuration; the
\* transport's fields have the values the constructor will give them.
InitConstruct ==
    /\ InitStdio
    /\ mode = "spawn"
    /\ InitHTTP
    /\ InitBody
    /\ InitClient /\ InitLocks

\* The constructor is called: a configuration is passed in.
CtorCall(config) ==
    /\ ctor = NoCtor
    /\ ctor' = [NoCtor EXCEPT !.config = config, !.at = "check"]
    /\ UNCHANGED <<mode, closed, mu, nextID, pendingRequests, chanBuf,
                   chanClosed, pc, cid, ctxDone, timerFired, outcome, got,
                   populated, rpc, rhold, inbound, outbound, stdinOK,
                   requestHandler, notificationHandler, released, closeRets,
                   closePending, panicked, sessionID, lastSessionID,
                   hSession, hpc, hHdr, hResp, hOutcome, hCloseRets, hExch,
                   hLastGet, hRespBody, client, clientLast, locks>>

\* Lines 154-165: an empty command is refused; otherwise the command is
\* created with the directory and environment of the configuration.
CtorCheck ==
    /\ ctor.at = "check"
    /\ ctor' = IF ctor.config.Command = ""
                 THEN [ctor EXCEPT !.at = "done", !.result = "error"]
                 ELSE [ctor EXCEPT !.at = "stdin",
                                   !.cmdDir = ctor.config.WorkingDir,
                                   !.cmdEnv = ctor.config.Env]
    /\ UNCHANGED <<mode, closed, mu, nextID, pendingRequests, chanBuf,
                   chanClosed, pc, cid, ctxDone, timerFired, outcome, got,
                   populated, rpc, rhold, inbound, outbound, stdinOK,
                   requestHandler, notificationHandler, released, closeRets,
                   closePending, panicked, sessionID, lastSessionID,
                   hSession, hpc, hHdr, hResp, hOutcome, hCloseRets, hExch,
                   hLastGet, hRespBody, client, clientLast, locks>>

\* A constructor that forgets the stdout pipe when it fails: with it in
\* place of ClosedOnFailure the formula of C16 fails.
ClosedOnFailureLeaky(at) ==
    CASE at = "stdin" -> {}
      [] at = "stdout" -> {"stdin"}
      [] at = "stderr" -> {"stdin"}
      [] at = "start" -> {"stdin", "stderr"}

\* Lines 168-192: the handles closed when the step `at` fails.
ClosedOnFailure(at) ==
    CASE at = "stdin" -> {}
      [] at = "stdout" -> {"stdin"}
      [] at = "stderr" -> {"stdin", "stdout"}
      [] at = "start" -> {"stdin", "stdout", "stderr"}

\* The statement after a pipe has been set up.
AfterPipe(at) ==
    CASE at = "stdin" -> "stdout" [] at = "stdout" -> "stderr" [] at = "stderr" -> "start"

\* Lines 168-185: cmd.StdinPipe, cmd.StdoutPipe, cmd.StderrPipe succeed or
\* fail.
CtorPipe(ok) ==
    /\ ctor.at \in {"stdin", "stdout", "stderr"}
    /\ ctor' = IF ok
                 THEN [ctor EXCEPT !.opened = @ \cup {ctor.at}, !.at = AfterPipe(ctor.at)]
                 ELSE [ctor EXCEPT !.closedHandles = ClosedOnFailure(ctor.at),
                                   !.at = "done", !.result = "error"]
    /\ UNCHANGED <<mode, closed, mu, nextID, pendingRequests, chanBuf,
                   chanClosed, pc, cid, ctxDone, timerFired, outcome, got,
                   populated, rpc, rhold, inbound, outbound, stdinOK,
                   requestHandler, notificationHandler, released, closeRets,
                   closePending, panicked, sessionID, lastSessionID,
                   hSession, hpc, hHdr, hResp, hOutcome, hCloseRets, hExch,
                   hLastGet, hRespBody, client, clientLast, locks>>

\* Lines 188-212: cmd.Start succeeds, the transport is built, readStderr and
\* readMessages are started and the transport returned; or it fails.
CtorStart(ok) ==
    /\ ctor.at = "start"
    /\ ctor' = IF ok
                 THEN [ctor EXCEPT !.at = "done", !.result = "transport", !.loops = 2]
                 ELSE [ctor EXCEPT !.closedHandles = ClosedOnFailure("start"),
                                   !.at = "done", !.result = "error"]
    /\ UNCHANGED <<mode, closed, mu, nextID, pendingRequests, chanBuf,
                   chanClosed, pc, cid, ctxDone, timerFired, outcome, got,
                   populated, rpc, rhold, inbound, outbound, stdinOK,
                   requestHandler, notificationHandler, released, closeRets,
                   closePending, panicked, sessionID, lastSessionID,
                   hSession, hpc, hHdr, hResp, hOutcome, hCloseRets, hExch,
                   hLastGet, hRespBody, client, clientLast, locks>>

\* The constructor has returned a transport: only then can anything be
\* done with it.
Built == ctor.result = "transport"

\* A spawn-mode transport is constructed and, if that succeeds, used by
\* one thread and closed.
NextConstruct ==
    \/ \E config \in Configs : CtorCall(config)
    \/ CtorCheck
    \/ \E ok \in BOOLEAN : CtorPipe(ok)
    \/ \E ok \in BOOLEAN : CtorStart(ok)
    \/ Built /\ CallBegin("a")
    \/ Built /\ CallRegister("a")
    \/ Built /\ CallSendLock("a")
    \/ Built /\ CallSendWrite("a")
    \/ Built /\ CallReceive("a")
    \/ Built /\ ReaderScanEnd
    \/ Built /\ CloseBegin
    \/ Built /\ \E ret \in {"nil", "waiterr"}, kill \in BOOLEAN : CloseFinish(ret, kill)

SpecConstruct == InitConstruct /\ [][NextConstruct]_vars


\* ------------------------------------------------------------------- locks
\* The lock operations of each function, in the order of its statements.
\* Call, lines 421-426, 443-445, 456 (sendMessage 388-389) and 448-453: the
\* closed check under the read lock, after which a closed transport
\* returns; else the registration under requestsMu, the write under mu in
\* sendMessage, and the deferred removal under requestsMu.

\* A Call that registers and sends under requestsMu: with it in place of
\* CallPaths the formula of C36 fails.
CallPathsNested ==
    {<<"mu.RLock", "mu.RUnlock">>,
     <<"mu.RLock", "mu.RUnlock", "requestsMu.Lock", "mu.Lock", "mu.Unlock",
       "requestsMu.Unlock">>}

CallPaths ==
    {<<"mu.RLock", "mu.RUnlock">>,
     <<"mu.RLock", "mu.RUnlock", "requestsMu.Lock", "requestsMu.Unlock",
       "mu.Lock", "mu.Unlock", "requestsMu.Lock", "requestsMu.Unlock">>}

\* Close, lines 504-509 and 504-530: mu is held from the first statement to
\* the return; an open transport is swept under requestsMu inside it.
ClosePaths ==
    {<<"mu.Lock", "mu.Unlock">>,
     <<"mu.Lock", "requestsMu.Lock", "requestsMu.Unlock", "mu.Unlock">>}

\* One turn of readMessages: handleResponse, lines 278-283, looks the id up
\* under requestsMu; handleServerRequest, lines 325-339, replies through
\* sendMessage, under mu; handleNotification takes no lock.
ReaderPaths ==
    {<<"requestsMu.Lock", "requestsMu.Unlock">>, <<"mu.Lock", "mu.Unlock">>}

\* GetSessionID, lines 497-499.
GetSessionIDPaths == {<<"mu.RLock", "mu.RUnlock">>}

PathsOf(t) ==
    CASE t \in {"a", "b"} -> CallPaths
      [] t = "closer" -> ClosePaths
      [] t = "reader" -> ReaderPaths
      [] OTHER -> GetSessionIDPaths

\* The lock operation a thread is at, "none" outside the functions.
AtOp(t) == IF locks.prog[t] = <<>> THEN "none" ELSE Head(locks.prog[t])

Advance(t) == [locks.prog EXCEPT ![t] = Tail(@)]

\* A thread enters one of its functions.
Enter(t, p) ==
    /\ locks.prog[t] = <<>>
    /\ p \in PathsOf(t)
    /\ locks' = [locks EXCEPT !.prog[t] = p]
    /\ UNCHANGED <<mode, closed, mu, nextID, pendingRequests, chanBuf,
                   chanClosed, pc, cid, ctxDone, timerFired, outcome, got,
                   populated, rpc, rhold, inbound, outbound, stdinOK,
                   requestHandler, notificationHandler, released, closeRets,
                   closePending, panicked, ctor, sessionID, lastSessionID,
                   hSession, hpc, hHdr, hResp, hOutcome, hCloseRets, hExch,
                   hLastGet, hRespBody, client, clientLast>>

\* sync.RWMutex: a read lock is granted when no writer holds the mutex, the
\* write lock when nobody holds it.
MuRLock(t) ==
    /\ AtOp(t) = "mu.RLock"
    /\ locks.writer = "none"
    /\ locks' = [locks EXCEPT !.prog = Advance(t), !.readers = @ \cup {t}]
    /\ UNCHANGED <<mode, closed, mu, nextID, pendingRequests, chanBuf,
                   chanClosed, pc, cid, ctxDone, timerFired, outcome, got,
                   populated, rpc, rhold, inbound, outbound, stdinOK,
                   requestHandler, notificationHandler, released, closeRets,
                   closePending, panicked, ctor, sessionID, lastSessionID,
                   hSession, hpc, hHdr, hResp, hOutcome, hCloseRets, hExch,
                   hLastGet, hRespBody, client, clientLast>>

MuRUnlock(t) ==
    /\ AtOp(t) = "mu.RUnlock"
    /\ locks' = [locks EXCEPT !.prog = Advance(t), !.readers = @ \ {t}]
    /\ UNCHANGED <<mode, closed, mu, nextID, pendingRequests, chanBuf,
                   chanClosed, pc, cid, ctxDone, timerFired, outcome, got,
                   populated, rpc, rhold, inbound, outbound, stdinOK,
                   requestHandler, notificationHandler, released, closeRets,
                   closePending, panicked, ctor, sessionID, lastSessionID,
                   hSession, hpc, hHdr, hResp, hOutcome, hCloseRets, hExch,
                   hLastGet, hRespBody, client, clientLast>>

MuLock(t) ==
    /\ AtOp(t) = "mu.Lock"
    /\ locks.writer = "none"
    /\ locks.readers = {}
    /\ locks' = [locks EXCEPT !.prog = Advance(t), !.writer = t]
    /\ UNCHANGED <<mode, closed, mu, nextID, pendingRequests, chanBuf,
                   chanClosed, pc, cid, ctxDone, timerFired, outcome, got,
                   populated, rpc, rhold, inbound, outbound, stdinOK,
                   requestHandler, notificationHandler, released, closeRets,
                   closePending, panicked, ctor, sessionID, lastSessionID,
                   hSession, hpc, hHdr, hResp, hOutcome, hCloseRets, hExch,
                   hLastGet, hRespBody, client, clientLast>>

MuUnlock(t) ==
    /\ AtOp(t) = "mu.Unlock"
    /\ locks' = [locks EXCEPT !.prog = Advance(t), !.writer = "none"]
    /\ UNCHANGED <<mode, closed, mu, nextID, pendingRequests, chanBuf,
                   chanClosed, pc, cid, ctxDone, timerFired, outcome, got,
                   populated, rpc, rhold, inbound, outbound, stdinOK,
                   requestHandler, notificationHandler, released, closeRets,
                   closePending, panicked, ctor, sessionID, lastSessionID,
                   hSession, hpc, hHdr, hResp, hOutcome, hCloseRets, hExch,
                   hLastGet, hRespBody, client, clientLast>>

\* requestsMu, a sync.RWMutex taken through Lock and Unlock only.
RequestsMuLock(t) ==
    /\ AtOp(t) = "requestsMu.Lock"
    /\ locks.requestsMu = "none"
    /\ locks' = [locks EXCEPT !.prog = Advance(t), !.requestsMu = t]
    /\ UNCHANGED <<mode, closed, mu, nextID, pendingRequests, chanBuf,
                   chanClosed, pc, cid, ctxDone, timerFired, outcome, got,
                   populated, rpc, rhold, inbound, outbound, stdinOK,
                   requestHandler, notificationHandler, released, closeRets,
                   closePending, panicked, ctor, sessionID, lastSessionID,
                   hSession, hpc, hHdr, hResp, hOutcome, hCloseRets, hExch,
                   hLastGet, hRespBody, client, clientLast>>

RequestsMuUnlock(t) ==
    /\ AtOp(t) = "requestsMu.Unlock"
    /\ locks' = [locks EXCEPT !.prog = Advance(t), !.requestsMu = "none"]
    /\ UNCHANGED <<mode, closed, mu, nextID, pendingRequests, chanBuf,
                   chanClosed, pc, cid, ctxDone, timerFired, outcome, got,
                   populated, rpc, rhold, inbound, outbound, stdinOK,
                   requestHandler, notificationHandler, released, closeRets,
                   closePending, panicked, ctor, sessionID, lastSessionID,
                   hSession, hpc, hHdr, hResp, hOutcome, hCloseRets, hExch,
                   hLastGet, hRespBody, client, clientLast>>

\* Calls, the scanning loop, Close and GetSessionID taking and releasing the
\* two locks in every interleaving.
NextLocks ==
    \/ \E t \in LockThreads, p \in CallPaths \cup ClosePaths \cup ReaderPaths
                                  \cup GetSessionIDPaths : Enter(t, p)
    \/ \E t \in LockThreads : MuRLock(t)
    \/ \E t \in LockThreads : MuRUnlock(t)
    \/ \E t \in LockThreads : MuLock(t)
    \/ \E t \in LockThreads : MuUnlock(t)
    \/ \E t \in LockThreads : RequestsMuLock(t)
    \/ \E t \in LockThreads : RequestsMuUnlock(t)

SpecLocks == Init /\ [][NextLocks]_vars
\* ------------------------------------------------------- parseSSEResponse
\* A body is a sequence of tokens: "D" is the text `data:`, "S" a space,
\* "N" a newline, "E" the text `[DONE]`, and "x", "y" two other characters.
Tokens == {"D", "S", "N", "E", "x", "y"}

RECURSIVE BodiesOfLength(_)
BodiesOfLength(n) ==
    IF n = 0 THEN {<<>>}
    ELSE {Append(b, k) : b \in BodiesOfLength(n - 1), k \in Tokens}

\* The bodies of TestParseSSEResponse (http_test.go:109-129): one data
\* block, two data blocks, a data block followed by [DONE], and data lines
\* without payload around a data block.
ExampleBodies ==
    {<<"D", "S", "x", "N", "N">>,
     <<"D", "S", "x", "N", "N", "D", "S", "y", "N", "N">>,
     <<"D", "S", "x", "N", "N", "D", "S", "E", "N", "N">>,
     <<"D", "S", "N", "N", "D", "S", "x", "N", "N", "D", "S", "N", "N">>}

SSEBodies == UNION {BodiesOfLength(n) : n \in 0..MaxBody} \cup ExampleBodies

\* Content-Type headers: absent, JSON, the event-stream type, and the
\* event-stream type with a parameter.
CTypes == {"", "application/json", "text/event-stream",
           "text/event-stream; charset=utf-8"}

\* Do, line 415: strings.Contains(Content-Type, "text/event-stream").
IsEventStream(ct) == ct \in {"text/event-stream", "text/event-stream; charset=utf-8"}

\* strings.Split(s, "\n"), line 441: the pieces between the newlines.
RECURSIVE Split(_)
Split(s) ==
    IF \A i \in 1..Len(s) : s[i] # "N" THEN <<s>>
    ELSE LET i == CHOOSE j \in 1..Len(s) :
                      s[j] = "N" /\ \A k \in 1..(j - 1) : s[k] # "N"
         IN  <<SubSeq(s, 1, i - 1)>> \o Split(SubSeq(s, i + 1, Len(s)))

\* strings.TrimSpace(line), line 445.
RECURSIVE TrimLeft(_)
TrimLeft(l) == IF l # <<>> /\ Head(l) = "S" THEN TrimLeft(Tail(l)) ELSE l

RECURSIVE TrimRight(_)
TrimRight(l) ==
    IF l # <<>> /\ l[Len(l)] = "S" THEN TrimRight(SubSeq(l, 1, Len(l) - 1)) ELSE l

TrimSpace(l) == TrimRight(TrimLeft(l))

\* strings.HasPrefix(line, "data: ") and strings.TrimPrefix, lines 446-447.
HasDataPrefix(l) == Len(l) >= 2 /\ l[1] = "D" /\ l[2] = "S"
TrimDataPrefix(l) == SubSeq(l, 3, Len(l))

\* A parser that keeps the [DONE] payload: with it in place of KeepPayload
\* the formula of C14 fails.
KeepPayloadWithDone(p) == p # <<>>

\* parseSSEResponse, line 448: a payload is written unless it is empty or
\* the sentinel.
KeepPayload(p) == p # <<>> /\ p # <<"E">>

\* parseSSEResponse, lines 444-452: what one line adds to the builder.
LineData(line) ==
    LET l == TrimSpace(line)
    IN  IF HasDataPrefix(l) /\ KeepPayload(TrimDataPrefix(l))
          THEN TrimDataPrefix(l) ELSE <<>>

\* parseSSEResponse, lines 441-454: the builder's contents after the loop.
RECURSIVE JoinData(_)
JoinData(lines) ==
    IF lines = <<>> THEN <<>> ELSE LineData(Head(lines)) \o JoinData(Tail(lines))

ParseSSEResponse(raw) == JoinData(Split(raw))

\* A Do that leaves every body alone: with it in place of EffectiveBody the
\* formula of C15 fails.
EffectiveBodyRaw(ct, raw) == raw

\* Do, lines 414-424: the body of the response handed to the caller.
EffectiveBody(ct, raw) == IF IsEventStream(ct) THEN ParseSSEResponse(raw) ELSE raw

\* Do, lines 414-424, for a response that has arrived.
HDoBody ==
    /\ hRespBody.at = "received"
    /\ hRespBody' = [hRespBody EXCEPT
                       !.body = EffectiveBody(hRespBody.ctype, hRespBody.raw),
                       !.at = "returned"]
    /\ UNCHANGED <<mode, closed, mu, nextID, pendingRequests, chanBuf,
                   chanClosed, pc, cid, ctxDone, timerFired, outcome, got,
                   populated, rpc, rhold, inbound, outbound, stdinOK,
                   requestHandler, notificationHandler, released, closeRets,
                   closePending, panicked, ctor, sessionID, lastSessionID,
                   hSession, hpc, hHdr, hResp, hOutcome, hCloseRets, hExch,
                   hLastGet, client, clientLast, locks>>

\* The caller reads the body that Do returned (io.ReadAll by the JSON-RPC
\* layer) and is done with the response.
HBodyConsumed ==
    /\ hRespBody.at = "returned"
    /\ hRespBody' = [hRespBody EXCEPT !.at = "consumed"]
    /\ UNCHANGED <<mode, closed, mu, nextID, pendingRequests, chanBuf,
                   chanClosed, pc, cid, ctxDone, timerFired, outcome, got,
                   populated, rpc, rhold, inbound, outbound, stdinOK,
                   requestHandler, notificationHandler, released, closeRets,
                   closePending, panicked, ctor, sessionID, lastSessionID,
                   hSession, hpc, hHdr, hResp, hOutcome, hCloseRets, hExch,
                   hLastGet, client, clientLast, locks>>

\* A response with any content type and any body has arrived in Do.
InitBodies ==
    hRespBody \in {[ctype |-> ct, raw |-> b, body |-> <<>>, at |-> "received"] :
                      ct \in CTypes, b \in SSEBodies}

NextSSE ==
    \/ HDoBody
    \/ HBodyConsumed

InitSSE ==
    InitStdio /\ mode = "spawn" /\ InitHTTP /\ InitBodies /\ InitClient /\ InitLocks

SpecSSE == InitSSE /\ [][NextSSE]_vars

\* ------------------------------------------------------------------ claims
\* C1.  Every Call that completes with a response of the server completes
\* with the response whose id equals the id of its own request, whatever
\* the order in which the responses arrive.
C1_CorrelatedById ==
    \A c \in Callers :
        (pc[c] = "done" /\ got[c].src.json) => got[c].src.id = NumId(2 * cid[c])

\* C2 as stated.  Every Call that Close found pending returns an error that
\* signals the closed transport.
C2_EveryPendingCallClosed ==
    \A c \in Callers :
        (cid[c] \in closePending /\ pc[c] = "done") =>
            \/ outcome[c] = "sendfail_closed"
            \/ outcome[c] = "remote" /\ got[c] = ClosedResponse

\* C2 amended.  From the moment Close has swept the pending map, every Call
\* it found waiting has the closed error ready in its channel, so it is not
\* left blocked; a Call that returns while neither its context has ended nor
\* its timer fired returns that error, and no swept Call returns anything
\* but the closed error, its context's error or the timeout.
C2_CloseUnblocksPending ==
    [][\A c \in Callers :
          cid[c] \in closePending' =>
            /\ pc'[c] = "wait" => chanBuf'[cid[c]] = <<ClosedResponse>>
            /\ (pc[c] = "wait" /\ pc'[c] = "done" /\ ~ctxDone[c] /\ ~timerFired[c]) =>
                   (outcome'[c] = "remote" /\ got'[c] = ClosedResponse)
            /\ pc'[c] = "done" =>
                   \/ outcome'[c] \in {"sendfail_closed", CtxErr, TimeoutErr}
                   \/ outcome'[c] = "remote" /\ got'[c] = ClosedResponse]_vars

\* Close was invoked while both Calls waited, and both returned its error.
C2_BothCallsClosed ==
    \A c \in Callers :
        /\ cid[c] \in closePending
        /\ pc[c] = "done"
        /\ outcome[c] = "remote"
        /\ got[c] = ClosedResponse

\* C3 as stated.  Every Close, on either transport, returns nil, and every
\* resource is released at most once.
C3_CloseAlwaysNil ==
    /\ \A i \in 1..Len(closeRets) : closeRets[i] = "nil"
    /\ \A i \in 1..Len(hCloseRets) : hCloseRets[i] = "nil"
    /\ \A r \in DOMAIN released : released[r] <= 1

\* C3 amended.  Closing repeatedly never panics; every Close but the first
\* returns nil, and so does the first except on a transport with a spawned
\* child, where it returns what waiting for the child returned; the stop
\* signal and the three streams are released once, the child is killed at
\* most once and waited for a second time only when killed; once the first
\* Close has returned, nothing is released any more.  Close on an HTTP
\* transport always returns nil.
C3_CloseIdempotent ==
    [][/\ ~panicked'
       /\ \A i \in 1..Len(closeRets') :
             (i > 1 \/ mode # "spawn") => closeRets'[i] = "nil"
       /\ \A i \in 1..Len(hCloseRets') : hCloseRets'[i] = "nil"
       /\ \A r \in {"stop", "stdin", "stdout", "stderr", "kill"} : released'[r] <= 1
       /\ released'.wait <= 1 + released'.kill
       /\ mode # "spawn" => released'.wait = 0 /\ released'.kill = 0
       /\ Len(closeRets) >= 1 => (released' = released /\ closed' = closed)]_vars

\* Both transports were closed twice; the first Close of the subprocess
\* transport returned the error of waiting for the child.
C3_ClosedTwice ==
    /\ closeRets = <<"waiterr", "nil">>
    /\ hCloseRets = <<"nil", "nil">>
    /\ released.stop = 1

\* C4.  On both transports a Call invoked after Close has returned fails
\* with a closed error at once, without any exchange with the server.
C4_CallAfterCloseFails ==
    [][/\ (pc["a"] = "idle" /\ pc'["a"] # "idle" /\ Len(closeRets) > 0) =>
             (pc'["a"] = "done" /\ outcome'["a"] = "closed" /\ outbound' = outbound)
       /\ (hpc["t1"] = "idle" /\ Len(hCloseRets) > 0) =>
             (hpc'["t1"] = "idle" /\ hExch' = hExch)]_vars

\* C5.  The stored session id is first-writer-wins: once an id is stored it
\* never changes.
C5_FirstWriterWins ==
    [][(hSession.len # 0 /\ hSession.ptr = hSession.len) => hSession' = hSession]_vars

\* C6.  A request sent while a session id is stored carries exactly that id
\* as its header, a request sent while none is stored carries no session
\* header, and GetSessionID returns the stored id.
C6_RequestsCarryStoredId ==
    [][/\ \A t \in HThreads :
             (hpc[t] = "attached" /\ hpc'[t] = "sent" /\ hSession.ptr = hSession.len)
                 => hHdr[t] = ReadStr(hSession)
       /\ hLastGet' # hLastGet => hLastGet' \in {EmptyStr} \cup {Str(v) : v \in SessionIds}]_vars

\* C7.  A Call whose request gets no reply and whose context has not ended
\* returns, when it returns, the timeout error, and only after its timer
\* fired; once a Call has returned the timeout error the pending map holds
\* no entry for its id.
C7_TimeoutReturn ==
    [][\A c \in Callers :
          /\ (pc[c] = "wait" /\ pc'[c] = "done" /\ chanBuf[cid[c]] = <<>> /\ ~ctxDone[c]) =>
                 (timerFired[c] /\ outcome'[c] = TimeoutErr)
          /\ (pc'[c] = "done" /\ outcome'[c] = TimeoutErr) =>
                 cid[c] \notin pendingRequests']_vars

\* A Call that the server never answered returned the timeout error.
C7_TimedOut ==
    \E c \in Callers :
        /\ pc[c] = "done"
        /\ outcome[c] = TimeoutErr
        /\ inbound = 0
        /\ ~closed
        /\ cid[c] \notin pendingRequests

\* C8 as stated.  A Call that returns after its context has ended returns
\* the context's error, and its pending entry is released.
C8_ContextAlwaysWins ==
    [][\A c \in Callers :
          (pc[c] = "wait" /\ pc'[c] = "done" /\ ctxDone[c]) =>
              (outcome'[c] = CtxErr /\ cid[c] \notin pendingRequests')]_vars

\* C8 amended.  A Call whose context has ended while it waits, with no
\* response in its channel and its timer not fired, returns the context's
\* error; the context's error is returned only for an ended context, is not
\* the timeout error, and leaves no pending entry for the Call's id.
C8_ContextReturn ==
    [][\A c \in Callers :
          /\ (pc[c] = "wait" /\ pc'[c] = "done" /\ ctxDone[c]
                 /\ chanBuf[cid[c]] = <<>> /\ ~timerFired[c]) => outcome'[c] = CtxErr
          /\ (pc[c] = "wait" /\ pc'[c] = "done" /\ outcome'[c] = CtxErr) =>
                 (ctxDone[c] /\ CtxErr # TimeoutErr /\ cid[c] \notin pendingRequests')]_vars

\* A Call returned its context's error.
C8_Cancelled ==
    \E c \in Callers :
        /\ pc[c] = "done"
        /\ outcome[c] = CtxErr
        /\ cid[c] \notin pendingRequests

\* C9.  A Call matched to a response that has an error member fails with a
\* remote error carrying the server's code, message and data unchanged, and
\* its result structure is not populated.
C9_ErrorMemberIsRemoteError ==
    \A c \in Callers :
        (pc[c] = "done" /\ got[c].src.json /\ got[c].src.error.kind # "absent") =>
            /\ outcome[c] = "remote"
            /\ populated[c] = "nil"
            /\ 2 * got[c].Error.Code = got[c].src.error.code2
            /\ got[c].Error.Message = got[c].src.error.msg
            /\ got[c].Error.Data = got[c].src.error.data

\* The reply envelope C10 expects for the line m.
MethodNotFoundReply(m) ==
    [type |-> "error", id |-> m.id, code |-> -32601, msg |-> "Method not found",
     result |-> "nil"]

\* C10.  On an open transport with no request handler registered, a line
\* with an id, a method and neither result nor error is answered with one
\* reply envelope of the same id and code -32601: the loop goes on to write
\* the reply unless the transport has been closed, the write appends exactly
\* that envelope (when the child still reads), the closed flag is not
\* touched, nothing panics and the loop returns to scanning.
C10_MethodNotFound ==
    [][/\ (rpc = "scan" /\ rpc' = "replyLock" /\ requestHandler = "nil"
              /\ rhold'.line.method = "m1") =>
             rhold'.reply = MethodNotFoundReply(rhold'.line)
       /\ (rpc = "replyLock" /\ rpc' # "replyLock" /\ ~closed) => rpc' = "replyWrite"
       /\ (rpc = "replyWrite" /\ rpc' # "replyWrite" /\ rhold.handler = "nil"
              /\ rhold.line.method = "m1") =>
             /\ stdinOK => outbound' = Append(outbound, MethodNotFoundReply(rhold.line))
             /\ closed' = closed
             /\ ~panicked'
             /\ rpc' = "scan"]_vars

\* A request of the server was answered with -32601 on an open transport
\* without a handler, and the loop is scanning again.
C10_Answered ==
    /\ ~closed
    /\ requestHandler = "nil"
    /\ rpc = "scan"
    /\ \E i \in 1..Len(outbound) :
          outbound[i] = MethodNotFoundReply(Msg(NumId(14), "absent", NoErr, "m1"))

\* e is an error envelope for the line m with the given code.
IsErrorReply(e, m, code) == e.type = "error" /\ e.id = m.id /\ e.code = code

\* C11.  A line with an id, neither result nor error, and no string method
\* is answered with an error envelope of code -32600 and the same id, and
\* no request handler is invoked for it, registered or not: the reply is
\* decided without a handler call, and the write appends exactly it (on a
\* transport still open, to a child that still reads).
C11_InvalidRequest ==
    [][/\ (rpc = "scan" /\ rpc' = "replyLock" /\ rhold'.line.method # "m1") =>
             /\ IsErrorReply(rhold'.reply, rhold'.line, -32600)
             /\ rhold'.ncalls = 0
       /\ (rpc = "replyWrite" /\ rpc' # "replyWrite" /\ rhold.line.method # "m1") =>
             /\ IsErrorReply(rhold.reply, rhold.line, -32600)
             /\ stdinOK => outbound' = Append(outbound, rhold.reply)
             /\ ~stdinOK => outbound' = outbound]_vars

\* A request without a method is being answered with -32600 while a handler
\* is registered, and none was invoked.
C11_AnsweredInvalid ==
    /\ rpc = "replyWrite"
    /\ rhold.handler = "h1"
    /\ rhold.line.method \in {"absent", "nonstr"}
    /\ rhold.ncalls = 0
    /\ rhold.reply.code = -32600
    /\ stdinOK

NotifyFrame ==
    /\ outbound' = outbound
    /\ outcome' = outcome
    /\ got' = got
    /\ populated' = populated
    /\ pc' = pc
    /\ chanBuf' = chanBuf
    /\ pendingRequests' = pendingRequests

\* C13 as stated.  For a line without an id the notification handler, if
\* one is registered, is invoked exactly once, and otherwise the line is
\* dropped; nothing is written back and no pending call's outcome changes.
C13_HandlerInvokedIfRegistered ==
    [][/\ (rpc = "scan" /\ rpc' = "notify") =>
             /\ rhold'.ncalls = IF notificationHandler # "nil" THEN 1 ELSE 0
             /\ NotifyFrame
       /\ (rpc = "notify" /\ rpc' # "notify") => NotifyFrame]_vars

\* C13 amended.  For a line without an id the notification handler is
\* invoked exactly once if one is registered and the line has a string
\* method, and otherwise the line is dropped; in neither case is anything
\* written back or a pending call's outcome changed, and the loop goes on
\* (the registration staying as it is while the line is handled: C31).
C13_Notification ==
    [][/\ (rpc = "scan" /\ rpc' = "notify") =>
             /\ rhold'.line.id = NoId
             /\ rhold'.handler = notificationHandler
             /\ rhold'.ncalls = IF notificationHandler # "nil" /\ rhold'.line.method = "m1"
                                  THEN 1 ELSE 0
             /\ NotifyFrame
       /\ (rpc = "notify" /\ rpc' # "notify") =>
             /\ NotifyFrame
             /\ notificationHandler = rhold.handler
                   => (rpc' = LoopTop /\ ~panicked')]_vars

\* The registered handler is running for a notification while a Call is
\* pending.
C13_HandlerRunning ==
    /\ rpc = "notify"
    /\ rhold.handler = "n1"
    /\ rhold.ncalls = 1
    /\ pc["a"] = "wait"
    /\ cid["a"] \in pendingRequests

\* The payload of a line as the streaming-event format defines it, read off
\* by position: the line without its surrounding spaces is `data:`, one
\* space, and the payload.
FirstInk(l) == CHOOSE i \in 1..Len(l) : l[i] # "S" /\ \A k \in 1..(i - 1) : l[k] = "S"
LastInk(l) == CHOOSE j \in 1..Len(l) : l[j] # "S" /\ \A k \in (j + 1)..Len(l) : l[k] = "S"
IsDataLine(l) ==
    /\ \E i \in 1..Len(l) : l[i] # "S"
    /\ l[FirstInk(l)] = "D"
    /\ FirstInk(l) < LastInk(l)
    /\ l[FirstInk(l) + 1] = "S"
DataPayload(l) == SubSeq(l, FirstInk(l) + 2, LastInk(l))

\* The lines of a body, read off by the positions of its newlines.
LineStarts(s) == {1} \cup {i + 1 : i \in {j \in 1..Len(s) : s[j] = "N"}}
LineFrom(s, a) ==
    SubSeq(s, a, (CHOOSE e \in a..(Len(s) + 1) :
                     (e = Len(s) + 1 \/ s[e] = "N") /\ \A k \in a..(e - 1) : s[k] # "N") - 1)

\* The payloads a decoded body consists of: those of the data lines from
\* position a on, without the empty ones and the sentinel, in order.
RECURSIVE PayloadsFrom(_, _)
PayloadsFrom(s, a) ==
    IF a > Len(s) + 1 THEN <<>>
    ELSE LET l == LineFrom(s, a)
             rest == PayloadsFrom(s, a + Len(l) + 1)
         IN  IF IsDataLine(l) /\ DataPayload(l) # <<"E">>
               THEN DataPayload(l) \o rest ELSE rest

\* C14.  For a response of the streaming-event content type the body
\* presented to the caller is the concatenation, in order, of the payloads
\* of its data lines without the empty ones and the [DONE] sentinel, and
\* nothing else: a data block followed by [DONE] yields that block, two
\* data blocks yield their plain concatenation.
C14_DecodedBody ==
    (hRespBody.at \in {"returned", "consumed"} /\ IsEventStream(hRespBody.ctype)) =>
        /\ hRespBody.body = PayloadsFrom(hRespBody.raw, 1)
        /\ hRespBody.raw = <<"D", "S", "x", "N", "N", "D", "S", "E", "N", "N">> =>
               hRespBody.body = <<"x">>
        /\ hRespBody.raw = <<"D", "S", "x", "N", "N", "D", "S", "y", "N", "N">> =>
               hRespBody.body = <<"x", "y">>

\* The response with a data block followed by [DONE] has been decoded.
C14_DoneDropped ==
    /\ hRespBody.at = "returned"
    /\ hRespBody.ctype = "text/event-stream"
    /\ hRespBody.raw = <<"D", "S", "x", "N", "N", "D", "S", "E", "N", "N">>
    /\ hRespBody.body = <<"x">>

\* Where the data lines of a body start.
DataLineStarts(s) == {a \in LineStarts(s) : IsDataLine(LineFrom(s, a))}

\* C15 as stated.  A body with no event-stream framing at all, be it that
\* the content type is not the event-stream type or that the body has no
\* data line, is presented to the caller unchanged.
C15_UnframedPassesThrough ==
    (hRespBody.at \in {"returned", "consumed"}
        /\ (~IsEventStream(hRespBody.ctype) \/ DataLineStarts(hRespBody.raw) = {})) =>
        hRespBody.body = hRespBody.raw

\* C15 amended.  A response whose content type is not the event-stream type
\* is presented unchanged, whatever its body looks like; a response of the
\* event-stream type is decoded whether it has no, one or many data lines:
\* with none the presented body is empty, with exactly one it is that
\* line's payload (or empty, if the payload is the sentinel).
C15_PassThroughByContentType ==
    hRespBody.at \in {"returned", "consumed"} =>
        /\ ~IsEventStream(hRespBody.ctype) => hRespBody.body = hRespBody.raw
        /\ (IsEventStream(hRespBody.ctype) /\ DataLineStarts(hRespBody.raw) = {}) =>
               hRespBody.body = <<>>
        /\ (IsEventStream(hRespBody.ctype)
               /\ Cardinality(DataLineStarts(hRespBody.raw)) = 1) =>
               \E a \in DataLineStarts(hRespBody.raw) :
                   LET p == DataPayload(LineFrom(hRespBody.raw, a))
                   IN  hRespBody.body = IF p = <<"E">> THEN <<>> ELSE p

\* A JSON response whose body looks like a data line was presented as is.
C15_JSONUntouched ==
    /\ hRespBody.at = "returned"
    /\ hRespBody.ctype = "application/json"
    /\ hRespBody.raw = <<"D", "S", "x", "N">>
    /\ hRespBody.body = hRespBody.raw

\* C16.  A constructor of a spawn-mode transport that fails (on an empty
\* command, a pipe that cannot be set up, a command that does not start)
\* returns an error and no transport, has started no background loop, and
\* has closed every pipe handle it had opened; nothing of a transport ever
\* runs after it.  With an empty command it fails before anything is opened.
C16_ConstructionFailsFast ==
    /\ ctor.result = "error" =>
          /\ ctor.loops = 0
          /\ ctor.opened \subseteq ctor.closedHandles
          /\ rpc = "scan" /\ inbound = 0 /\ pc["a"] = "idle" /\ closeRets = <<>>
    /\ (ctor.config.Command = "" /\ ctor.at = "done") =>
          (ctor.result = "error" /\ ctor.opened = {})
    /\ ctor.result = "transport" =>
          (ctor.config.Command # "" /\ ctor.loops = 2 /\ ctor.closedHandles = {})

\* The constructor failed setting up the stderr pipe, after it had opened
\* the other two.
C16_StderrPipeFailed ==
    /\ ctor.result = "error"
    /\ ctor.opened = {"stdin", "stdout"}
    /\ ctor.closedHandles = {"stdin", "stdout"}


\* The cached capabilities contain the capability.
Advertised(cap) ==
    \E c \in CapSets : client.capabilities = CachedCapabilities(c) /\ cap \in c

\* C17: an operation whose capability the cached capabilities do not
\* contain (none are cached before Initialize has succeeded, nor on a client
\* built without a transport) returns no result and no error and issues no
\* Call on the transport; HasTools, HasResources and HasPrompts return true
\* exactly when the cached capabilities contain their capability.
C17_GatedByCapability ==
    /\ (clientLast.op \in GatedOps /\ ~Advertised(CapabilityOf(clientLast.op)))
          => /\ clientLast.calls = <<>>
             /\ clientLast.ret = "nil"
             /\ clientLast.err = "nil"
    /\ clientLast.op \in HasOps
          => (clientLast.ret = "true" <=> Advertised(CapabilityOf(clientLast.op)))

\* After a successful Initialize that cached capabilities without
\* resources, ReadResource has returned.
C17_NotAdvertised ==
    /\ clientLast.op = "ReadResource"
    /\ client.capabilities.cached
    /\ "tools" \in client.capabilities.members
    /\ "resources" \notin client.capabilities.members
    /\ clientLast.calls = <<>>

\* C18: Initialize on a client with a transport issues exactly one Call,
\* for the method initialize; when the Call succeeds the decoded server
\* identity and capabilities are cached, when it fails Initialize returns
\* the Call's error and the cached identity and capabilities stay as they
\* were.
C18_Initialize ==
    [][(/\ clientLast'.n = clientLast.n + 1
        /\ clientLast'.op = "Initialize"
        /\ client.transport = "mock")
          => /\ clientLast'.calls = <<"initialize">>
             /\ clientLast'.err = clientLast'.answer.err
             /\ IF clientLast'.answer.err = "nil"
                  THEN /\ client'.serverInfo = clientLast'.answer.serverInfo
                       /\ client'.capabilities.cached
                       /\ client'.capabilities.members
                             = clientLast'.answer.capabilities
                  ELSE client' = client]_vars

\* Initialize has failed on a client that had cached a server identity and
\* capabilities, and the answer that failed carried other ones.
C18_FailedAfterSuccess ==
    /\ clientLast.op = "Initialize"
    /\ clientLast.err \in TransportErrors
    /\ client.serverInfo \in ServerInfos
    /\ client.serverInfo # clientLast.answer.serverInfo
    /\ client.capabilities.members # clientLast.answer.capabilities

\* C19: Close releases only what the transport owns.  On a transport over
\* the process's own standard streams the streams themselves are never
\* closed; on a transport without a spawned child no process is waited for
\* or killed; a spawned child is waited for by every Close that did the
\* closing, and killed only after a wait that ran out.
C19_ReleasesOnlyOwned ==
    /\ mode = "os" => released.under = 0
    /\ mode # "spawn" => released.wait = 0 /\ released.kill = 0
    /\ (mode = "spawn" /\ closed /\ mu = "free") => released.wait >= 1
    /\ released.kill >= 1 => released.wait = 2

\* Close has returned on a transport over the process's own streams, and
\* has called Close on its three handles.
C19_ClosedOverOwnStreams ==
    /\ mode = "os"
    /\ closeRets # <<>>
    /\ released.stdin = 1 /\ released.stdout = 1 /\ released.stderr = 1

\* C20: the id a Call generates is a positive integer greater than every id
\* the transport generated before, whether or not the Calls that got those
\* are still under way.
C20_IdsIncrease ==
    [][\A c \in Callers :
          cid'[c] # cid[c]
             => /\ cid'[c] \in Nat \ {0}
                /\ \A d \in Callers : cid[d] # 0 => cid'[c] > cid[d]
                /\ cid'[c] > nextID]_vars

\* Two Calls have generated their ids before either has registered its
\* channel.
C20_TwoIdsInFlight ==
    /\ pc["a"] = "register" /\ pc["b"] = "register"
    /\ cid["a"] # 0 /\ cid["b"] # 0

\* C21: GetSessionID on a subprocess transport returns the empty string,
\* whatever Calls, inbound lines and Close came before it.
C21_SessionIDEmpty == sessionID = "" /\ lastSessionID \in {"none", ""}

\* GetSessionID has returned after a Call got its response, a line was
\* answered, and Close returned.
C21_AskedAfterClose ==
    /\ lastSessionID # "none"
    /\ closeRets # <<>>
    /\ outcome["a"] = "ok"
    /\ inbound = MaxInbound

\* A thread is between the two words of its store to the session-id slot.
MidStore(t) == hpc[t] \in {"storeLen", "storePtr"}

\* C22: the session-id slot is never accessed by two threads at once when
\* one of them writes it: while a thread is in the middle of its store no
\* other thread begins a store, and no thread reads the slot, for a
\* request's header or for GetSessionID.
C22_SlotAccessGuarded ==
    [][/\ \A t \in HThreads :
             (hpc[t] = "store" /\ hpc'[t] # "store")
                 => \A u \in HThreads \ {t} : ~MidStore(u)
       /\ \A t \in HThreads :
             (hpc[t] = "idle" /\ hpc'[t] = "attached")
                 => \A u \in HThreads : ~MidStore(u)
       /\ hLastGet' # hLastGet => \A u \in HThreads : ~MidStore(u)]_vars

ResponseTaken(c) ==
    \/ rpc = "deliver" /\ rhold.target = cid[c]
    \/ chanBuf[cid[c]] # <<>>

C24_NoEntryAfterReturn ==
    /\ \A c \in Callers :
          (pc[c] = "done" /\ cid[c] # 0) => cid[c] \notin pendingRequests
    /\ (\A c \in Callers : pc[c] \in {"idle", "done"}) => pendingRequests = {}

\* Both Calls have returned, one with the timeout error and the other with
\* the context's error, neither having been answered.
C24_ReturnedUnanswered ==
    /\ pc["a"] = "done" /\ pc["b"] = "done"
    /\ {outcome["a"], outcome["b"]} = {TimeoutErr, CtxErr}

\* The right to deliver to the channel of id i: the map's entry, or the
\* entry readMessages took out of the map and has not yet sent to.
HoldsEntry(pending, at, hold, i) ==
    i \in pending \/ (at = "deliver" /\ hold.target = i)

\* C25: the channel of a pending request receives at most one delivery.  A
\* delivery (one value, the response in hand or the closed error) uses up
\* the entry; an entry used up or deleted never comes back; without it
\* nothing is delivered (a further response with the id is dropped); and
\* what a channel holds is never replaced.
C25_ConsumedAtMostOnce ==
    [][\A i \in Ids :
          /\ (chanBuf[i] = <<>> /\ chanBuf'[i] # <<>>)
                => /\ HoldsEntry(pendingRequests, rpc, rhold, i)
                   /\ ~HoldsEntry(pendingRequests', rpc', rhold', i)
                   /\ chanBuf'[i] \in {<<ClosedResponse>>, <<rhold.resp>>}
          /\ ((\E c \in Callers : cid[c] = i /\ pc[c] # "register")
                 /\ ~HoldsEntry(pendingRequests, rpc, rhold, i))
                => /\ ~HoldsEntry(pendingRequests', rpc', rhold', i)
                   /\ chanBuf'[i] \in {chanBuf[i], <<>>}
          /\ chanBuf[i] # <<>> => chanBuf'[i] \in {chanBuf[i], <<>>}]_vars

\* A Call has received the response the server sent, and a Close that came
\* later found no entry for it.
C25_AnsweredThenClosed ==
    /\ got["a"].src # NoLine
    /\ closeRets # <<>>
    /\ cid["a"] \notin closePending
    /\ inbound = MaxInbound

\* The writers that are inside stdin.Write.
Writing ==
    {c \in Callers : pc[c] = "write"}
        \cup (IF rpc = "replyWrite" THEN {"reader"} ELSE {})

\* C26: outbound lines are written one at a time.  At most one writer, a
\* Call or the loop replying to a server request, is inside the write of
\* its line, that writer holds the write lock, and the outbound stream is a
\* sequence of whole lines.
C26_WritesOneAtATime ==
    /\ Cardinality(Writing) <= 1
    /\ \A w \in Writing : mu = w
    /\ \A k \in 1..Len(outbound) :
          \/ \E i \in Ids : outbound[k] = RequestLine(i)
          \/ outbound[k].type \in {"error", "success"}

\* A Call is inside its write while the other Call and a reply wait for
\* the lock.
C26_ThreeWriters ==
    /\ pc["a"] = "write"
    /\ pc["b"] = "sendLock"
    /\ rpc = "replyLock"

\* C27: once the closed flag is set no line is written; a writer is inside
\* its write only while the flag is clear and stdin has not been closed; a
\* Call begun while the flag is set returns the closed error at once, and a
\* Call that comes to send while it is set returns a closed error, neither
\* having written.
C27_NoWriteOnceClosed ==
    [][/\ closed => outbound' = outbound
       /\ Writing # {} => (~closed /\ released.stdin = 0)
       /\ \A c \in Callers :
             /\ (closed /\ pc[c] = "idle" /\ pc'[c] # "idle")
                   => (pc'[c] = "done" /\ outcome'[c] = "closed")
             /\ (closed /\ pc[c] = "sendLock" /\ pc'[c] # "sendLock")
                   => (pc'[c] = "done" /\ outcome'[c] = "sendfail_closed")]_vars

\* Close came between a Call's registration and its send, and while a reply
\* was waiting to be sent: the Call has returned the closed error, the reply
\* was dropped, and nothing was written.
C27_ClosedBeforeSend ==
    /\ closeRets # <<>>
    /\ outcome["a"] = "sendfail_closed"
    /\ outcome["b"] = "closed"
    /\ inbound >= 1 /\ rpc # "replyLock"
    /\ outbound = <<>>

\* C28: a line that is not a JSON object, of whatever length, is discarded:
\* the step that reads it changes no Call's outcome, delivers and writes
\* nothing, leaves the pending map as it is, and leaves the loop scanning
\* (unless Close has signalled it to stop), so that later lines are
\* dispatched.
C28_MalformedNotFatal ==
    [][(ReaderLine(NoLine) \/ ReaderLineTooLong)
          => /\ rpc' = LoopTop
             /\ UNCHANGED <<outcome, got, chanBuf, pendingRequests, outbound>>]_vars

\* The same for the lines that fit the scanner's buffer.
C28_ShortMalformedNotFatal ==
    [][ReaderLine(NoLine)
          => /\ rpc' = LoopTop
             /\ UNCHANGED <<outcome, got, chanBuf, pendingRequests, outbound>>]_vars

\* C29: a response whose id is the key of no entry of the pending map is
\* dropped: the step that reads it changes no Call's outcome, delivers and
\* writes nothing, leaves the pending map as it is, and leaves the loop
\* scanning (unless Close has signalled it to stop).
C29_UnmatchedResponseDropped ==
    [][\A m \in Responses :
          (/\ inbound' # inbound
           /\ ResponseKey(m) \notin pendingRequests
           /\ ReaderLine(m))
             => /\ rpc' = LoopTop
                /\ UNCHANGED <<outcome, got, populated, chanBuf,
                               pendingRequests, outbound, rhold, pc>>]_vars

\* The Call has returned the timeout error, one response has been read
\* (before the Call registered, or after it timed out, or in time but
\* losing the race with the timer), and the loop is scanning.
C29_DroppedAfterTimeout ==
    /\ pc["a"] = "done" /\ outcome["a"] = TimeoutErr
    /\ pendingRequests = {}
    /\ inbound = 1
    /\ rhold = NoHold /\ rpc = "scan"
    /\ ~panicked

\* C30: inbound lines are dispatched one at a time, in arrival order.  A
\* line is taken only when the loop holds nothing of the line before; a
\* server's response is delivered only by the loop, for the line it holds
\* and with no handler invoked for that line; a reply is written only by
\* the loop, for the request it holds, so replies leave in the order their
\* requests arrived.
C30_OneLineAtATime ==
    [][/\ inbound' # inbound => (rpc = "scan" /\ rhold = NoHold)
       /\ \A i \in Ids :
             (chanBuf'[i] # chanBuf[i] /\ chanBuf'[i] # <<>>
                 /\ chanBuf'[i][1].src # NoLine)
                => /\ rpc = "deliver"
                   /\ rhold.resp = chanBuf'[i][1]
                   /\ rhold.ncalls = 0
       /\ (Len(outbound') > Len(outbound)
              /\ outbound'[Len(outbound')].type # "request")
             => /\ rpc = "replyWrite"
                /\ outbound'[Len(outbound')] = rhold.reply
                /\ rhold.reply.id = rhold.line.id]_vars

\* Two server requests with different ids have arrived and both replies
\* have been written.
C30_TwoRepliesWritten ==
    /\ inbound = 2
    /\ Len(outbound) = 2
    /\ outbound[1].type # "request" /\ outbound[2].type # "request"
    /\ outbound[1].id = NumId(14) /\ outbound[2].id = StrId
    /\ rpc = "scan"

\* C31: the notification handler a dispatched line is given to is the one
\* most recently registered, also when handlers are registered while the
\* loop is at work on the line: the handler tested is the one stored, the
\* handler called is the one tested, and the dispatch does not crash.
C31_LastRegistrationWins ==
    [][/\ (rpc = "scan" /\ rpc' = "notify")
             => rhold'.handler = notificationHandler
       /\ (rpc = "notify" /\ rhold.ncalls = 1 /\ rhold' # rhold)
             => notificationHandler = rhold.handler
       /\ rpc = "notify" => ~panicked']_vars

\* C32, as stated: whatever the number of Close invocations, the stop
\* signal and each stream are closed once and the child is waited for once;
\* every invocation but one returns nil.
C32_ShutdownOnce ==
    /\ \A r \in {"stop", "stdin", "stdout", "stderr", "wait"} : released[r] <= 1
    /\ \A k \in 2..Len(closeRets) : closeRets[k] = "nil"

\* C32: of the Close invocations on one transport exactly one, the first to
\* get the lock, performs the shutdown: the stop signal and each stream are
\* closed once, the child is killed at most once and waited for by that
\* invocation only (a second time after the kill); every other invocation
\* returns nil, and the stop signal is never closed twice, which would
\* panic.
C32_OneCloseShutsDown ==
    /\ \A r \in {"stop", "stdin", "stdout", "stderr", "kill"} : released[r] <= 1
    /\ released.wait <= 1 + released.kill
    /\ \A k \in 2..Len(closeRets) : closeRets[k] = "nil"
    /\ closed => (released.stop = 1 /\ released.stdin = 1
                    /\ released.stdout = 1 /\ released.stderr = 1)
    /\ (closeRets # <<>> /\ mode = "spawn") => released.wait >= 1

\* Every invocation has returned; the first one killed the child.
C32_AllClosesReturned ==
    /\ Len(closeRets) = MaxCloses
    /\ released.kill = 1
    /\ mu = "free"

\* C33: the closed flag is clear at first, is set only by the Close that
\* shuts the transport down, and is never cleared: the end of the child's
\* output, a scanner error, a malformed line, a failed write, a timeout and
\* a cancellation leave it as it is.
C33_ClosedOnlyByClose ==
    [][/\ closed => closed'
       /\ closed' # closed
             => /\ mu = "free" /\ mu' = "close"
                /\ released'.stop = released.stop + 1
                /\ rpc' = rpc /\ pc' = pc /\ outcome' = outcome
                /\ stdinOK' = stdinOK /\ inbound' = inbound]_vars

\* The child has stopped reading and ended its output, the Call has failed
\* to send, and the transport is still open.
C33_StillOpen ==
    /\ ~closed
    /\ rpc = "done"
    /\ inbound = MaxInbound
    /\ outcome["a"] = "sendfail_io"

\* C34: the scanning loop never sends on a response channel that the
\* channel's Call has already closed: a response arriving while its Call is
\* leaving is delivered or dropped, and the transport does not crash.
C34_NoSendOnClosedChannel ==
    /\ rpc = "deliver" => ~chanClosed[rhold.target]
    /\ ~panicked

\* C35: every channel registered in the pending map is empty and open, so
\* the Close that shuts the transport down puts the closed error into the
\* channel of every entry it finds.
C35_SweepAlwaysDelivers ==
    [][/\ \A i \in pendingRequests : chanBuf[i] = <<>> /\ ~chanClosed[i]
       /\ \A i \in pendingRequests' : chanBuf'[i] = <<>> /\ ~chanClosed'[i]
       /\ (closed' /\ ~closed)
             => \A i \in pendingRequests :
                    /\ chanBuf'[i] = <<ClosedResponse>>
                    /\ i \notin pendingRequests']_vars

\* Close found the entry of a Call that had written its request, and the
\* Call returned the closed error it was given.
C35_SweptCallGotClosed ==
    /\ cid["a"] \in closePending
    /\ pc["a"] = "done"
    /\ got["a"] = ClosedResponse
    /\ outbound # <<>>

\* Thread t is waiting for a lock that thread u holds.
WaitsFor(t, u) ==
    \/ AtOp(t) = "mu.Lock" /\ (locks.writer = u \/ u \in locks.readers)
    \/ AtOp(t) = "mu.RLock" /\ locks.writer = u
    \/ AtOp(t) = "requestsMu.Lock" /\ locks.requestsMu = u

\* C36: no set of threads is deadlocked on the two locks, each waiting for
\* a lock held inside the set; and the locks nest in one order only: a
\* thread holding requestsMu does nothing but release it, so mu is never
\* asked for under requestsMu.
C36_NoLockDeadlock ==
    /\ \A S \in SUBSET LockThreads :
           S # {} => \E t \in S : \A u \in S : ~WaitsFor(t, u)
    /\ \A t \in LockThreads :
           locks.requestsMu = t => AtOp(t) = "requestsMu.Unlock"

\* Close holds both locks while a Call waits to register and the loop waits
\* to write a reply.
C36_BothHeldOthersWaiting ==
    /\ locks.writer = "closer"
    /\ locks.requestsMu = "closer"
    /\ AtOp("a") = "requestsMu.Lock"
    /\ AtOp("b") = "mu.RLock"
    /\ AtOp("reader") = "mu.Lock"

\* C37: a Call that has begun on an open transport returns, the timer of
\* its select firing once started: also when the child never reads its
\* input, never replies, or ends its output.
C37_CallReturns ==
    (pc["a"] = "register") ~> (pc["a"] = "done")

\* C38: Close, called, returns: also while another thread is inside a write
\* to the child's input, while the loop is inside Scan or a handler, and
\* when the child does not exit by itself.
C38_CloseReturns ==
    <>(closeRets # <<>>)

\* C39: once a Close has returned, no inbound line is dispatched and no
\* handler invoked any more.
C39_NoDispatchAfterClose ==
    [][closeRets # <<>>
          => /\ inbound' = inbound
             /\ rhold'.ncalls <= rhold.ncalls]_vars

\* C40: after Close the scanning loop ends, however the transport was
\* constructed.
C40_LoopEnds ==
    closed ~> (rpc = "done")

====
